---- MODULE Spec2Model ----
(***************************************************************************)
(* Verification model of the binary decoders of sekai-live2d-updater:     *)
(* the AFS2 archive reader, the UTF table reader, the ACB track resolver  *)
(* and the ACB extractor of src/utils/acb.py, the USM demuxer of          *)
(* src/utils/usm.py and the motion and moc3 helpers of src/utils/live2d.py.*)
(*                                                                         *)
(* Every decoder is its own state machine over the shared variables; a    *)
(* specification Spec<Decoder> starts one decoder on an input drawn from  *)
(* a bounded set and leaves the others idle.                              *)
(***************************************************************************)
EXTENDS Integers, Sequences, FiniteSets, TLC

VARIABLES
    afs_in,      \* the AFS2 buffer handed to AFSArchive(file): its header fields
    afs_pc,      \* "start" | "parsed" | "failed" | "looked"
    afs_err,     \* exception that ended __init__ or the lookup ("" when none)
    files,       \* AFSArchive.files : Seq of afs2_file_ent_t
    lookup_id,   \* argument of the last file_data_for_cue_id call (-1: none)
    lookup_res   \* its return value, a byte range of the buffer (NoData: none)

VARIABLES
    name_map,    \* TrackList: CueIndex -> CueName, built from the CueName table
    tracks,      \* TrackList.tracks : Seq of track_t
    tl_pc,       \* "resolving" | "done" | "failed" | "idle"
    tl_err       \* exception that ended TrackList.__init__ ("" when none)

VARIABLES
    awb_file,      \* extract_acb input: the AwbFile blob (an AFS2 buffer, or empty)
    stream_awb_hash, \* extract_acb input: the StreamAwbHash field of the ACB:
                   \* "absent" | "empty" (zero bytes) | "table"
    stream_awbs,   \* extract_acb input: per StreamAwbHash row, the sibling .awb
    embedded_awb,  \* extract_acb local: the archive non-streamed tracks read
    external_awbs, \* extract_acb local: the archives of the siblings found
    out_fs,        \* files of target_dir: file name -> content
    outputs,       \* extract_acb local: paths appended after each track
    ex_i,          \* position of the track loop (1-based index into tracks)
    ex_pc,         \* "idle" | "start" | "loop" | "done" | "failed"
    ex_err         \* exception that ended extract_acb ("" when none)

VARIABLES
    utf_desc,      \* the table the buffer was built from (not read by the parser)
    utf_buf,       \* the buffer handed to UTFTable(file): Seq of bytes
    header,        \* UTFTable.header : utf_header_t
    table_name,    \* UTFTable.name
    dynamic_keys,  \* UTFTable.dynamic_keys : names of the per-row fields
    struct_format, \* UTFTable.struct_format : type keys of the per-row fields
    constants,     \* UTFTable.constants : field name -> value
    rows,          \* UTFTable.rows : Seq of (field name -> value)
    utf_pc,        \* "idle" | "start" | "schema" | "rows" | "done" | "failed"
    utf_err        \* exception that ended UTFTable.__init__ ("" when none)

VARIABLES
    acb,           \* TrackList input: the tables of the ACB (Cue, Sequence, ...)
    cue_i          \* TrackList: position of the cue loop (1-based; 0: not run)

VARIABLES
    usm_in,        \* extract_usm input: the container's blocks and the key
    usm_pos,       \* extract_usm: index of the block at `offset` (1-based)
    hasAudio,      \* extract_usm local
    usm_files,     \* files of target_dir: "m2v" / "adx" -> payloads written
    usm_pc,        \* "idle" | "crid" | ... | "data" | "done" | "failed"
    usm_err        \* exception that ended extract_usm ("" when none)

VARIABLES
    curve_in,            \* one track["Curve"]: Seq of samples
    segments,            \* the Segments the loop emitted for the track
    seg_j,               \* position of the sample loop
    total_segment_count, \* restore_unity_object_to_motion3 local
    total_point_count,   \* restore_unity_object_to_motion3 local
    seg_pc               \* "idle" | "start" | "loop" | "done"

VARIABLES
    moc3,          \* extract_params_ids_from_moc3 input: header words and slots
    cursor,        \* extract_params_ids_from_moc3 local
    param_id_map,  \* extract_params_ids_from_moc3 local: key -> name
    moc_pc         \* "idle" | "parts" | "params" | "done"

VARIABLES
    mask_calls     \* get_mask: the (key, result) of every call made so far

VARIABLES
    rd_buf,        \* per invocation: the buffer its reader wraps
    rd_script,     \* per invocation: the reads it makes, in order
    rd_pos,        \* per reader: the position of its file object
    rd_ip,         \* per invocation: index of the read it is in, and its step
    rd_back,       \* per invocation: the local `back` of a read with at=...
    rd_out         \* per invocation: the values read so far

VARIABLES
    ip_command,    \* the interpreter loop: the Command blob (Seq of bytes)
    ip_k,          \* the interpreter loop: k, the read position
    ip_origin,     \* per track appended by the loop: the offset of its record
    ip_pc          \* "idle" | "loop" | "exited" | "failed"

VARIABLES
    dl_in,         \* the data loop: the chunks the stream was built from, the key, hasAudio,
    dl_stream,     \* the data loop: the bytes of usm from the first data chunk on,
    dl_pos,        \* the data loop: the position of usm_file at the top of the loop,
    dl_files,      \* output_files: the bytes written to each,
    dl_pc,         \* "idle" | "loop" | "done" | "failed",
    dl_err         \* exception that ended the loop ("" when none)

VARIABLES
    gt_buf,        \* get_utf_table: the bytes of the stream from "@UTF" on,
    gt_rows,       \* get_utf_table: the rows returned,
    gt_ref,        \* UTFTable on the same bytes: [err, rows],
    gt_pc,         \* "idle" | "start" | "done" | "failed",
    gt_err         \* exception that ended get_utf_table ("" when none)

VARIABLES
    psc_in,        \* process_streamed_clip: the records of the stream,
    psc_ret,       \* process_streamed_clip: ret, the frames kept,
    psc_k,         \* process_streamed_clip: the frame of the slope loop (0-based),
    psc_pc         \* "idle" | "read" | "slopes" | "done"

VARIABLES
    dc_in,         \* the decode loops: the bindings and the clips of the animation clip,
    dc_tracks,     \* motion["TrackList"],
    dc_n,          \* the decode loops: the calls made so far,
    dc_pc,         \* "idle" | "decode" | "done" | "failed",
    dc_err         \* exception that ended the decode ("" when none)

VARIABLES
    up_fs,         \* the download-list, bundle-info and version cache files,
    up_server,     \* the bundle info the endpoint serves in this run,
    up_list,       \* main: dl_list / download_list,
    up_run,        \* the run of the program (1-based),
    up_queried,    \* main: the endpoints were queried in this run,
    up_resumed,    \* main: this run loaded the cached list,
    up_pc          \* "idle" | "start" | "list" | "download" | "restore" | "upload" | "unlink" | "done" | "failed"

afsVars == <<afs_in, afs_pc, afs_err, files, lookup_id, lookup_res>>

utfVars == <<utf_desc, utf_buf, header, table_name, dynamic_keys, struct_format,
             constants, rows, utf_pc, utf_err>>

tlVars == <<name_map, tracks, tl_pc, tl_err>>

exVars == <<awb_file, stream_awb_hash, stream_awbs, embedded_awb, external_awbs,
            out_fs, outputs, ex_i, ex_pc, ex_err>>

resVars == <<acb, cue_i>>

usmVars == <<usm_in, usm_pos, hasAudio, usm_files, usm_pc, usm_err>>

segVars == <<curve_in, segments, seg_j, total_segment_count, total_point_count, seg_pc>>

mocVars == <<moc3, cursor, param_id_map, moc_pc>>

maskVars == <<mask_calls>>

rdVars == <<rd_buf, rd_script, rd_pos, rd_ip, rd_back, rd_out>>

ipVars == <<ip_command, ip_k, ip_origin, ip_pc>>

dlVars == <<dl_in, dl_stream, dl_pos, dl_files, dl_pc, dl_err>>

gtVars == <<gt_buf, gt_rows, gt_ref, gt_pc, gt_err>>

pscVars == <<psc_in, psc_ret, psc_k, psc_pc>>

dcVars == <<dc_in, dc_tracks, dc_n, dc_pc, dc_err>>

upVars == <<up_fs, up_server, up_list, up_run, up_queried, up_resumed,
            up_pc>>

\* the variables of the later sections
lateVars == <<ipVars, dlVars, gtVars, pscVars, dcVars, upVars>>

\* the variables of src/utils/acb.py
acbVars == <<afsVars, tlVars, exVars, utfVars, resVars>>

\* the variables of the decoders outside class AFSArchive, UTFTable and extract_acb
extVars == <<resVars, usmVars, segVars, mocVars, maskVars, rdVars, lateVars>>

vars == <<afsVars, tlVars, exVars, utfVars, extVars>>

(***************************************************************************)
(* Generic helpers                                                         *)
(***************************************************************************)
Min(a, b) == IF a < b THEN a ELSE b

Max(a, b) == IF a < b THEN b ELSE a

\* a read that returned nothing / no value at all
NoData == <<0, 0>>

\* io.BytesIO: seek(at); read(size) on a buffer of nbytes bytes.  The result
\* is the byte range [lo, hi) actually returned; a negative size reads to the
\* end of the buffer, a position at or past the end returns b"".
BytesAt(nbytes, size, at) ==
    LET hi == IF size < 0 THEN nbytes ELSE Min(at + size, nbytes)
    IN  IF at >= nbytes \/ hi <= at THEN NoData ELSE <<at, hi>>

(***************************************************************************)
(* AFS2 archive reader (class AFSArchive)                                  *)
(***************************************************************************)
AFS2_MAGIC == 1095127858      \* 0x41465332

MaxFiles == 2                 \* most entries of a modelled archive

RawOffsetValues == {0, 100, 128, 250}

CueIdValues == {0, 1, 2}

AlignmentValues == {0, 1, 32}

BufferSizes == {20, 300}

FieldWidths == {2, 4, 8}

\* _struct_format: only 2- and 4-byte fields are supported
StructFormatOk(size) == size \in {2, 4}

\* int("FF" * offset_size, 16), applied with x & offset_mask
ApplyMask(x, offset_size) ==
    IF offset_size = 2 THEN x % 65536
    ELSE (x % 65536) + ((x \div 65536) % 65536) * 65536

\* a mutant of Align: rounds down instead of up
AlignFloor(n, number) == (number \div n) * n

\* align(n)(number) = math.ceil(number / n) * n
Align(n, number) ==
    (IF number % n = 0 THEN number \div n ELSE (number \div n) + 1) * n

\* a mutant of Lengths: the end bound is the next aligned offset
LengthsAligned(aligned_offs, unaligned_offs) ==
    [i \in 1..(Len(aligned_offs) - 1) |-> aligned_offs[i + 1] - aligned_offs[i]]

\* lengths = starmap(next_offset - my_offset, zip(aligned_offs, unaligned_offs[1:]))
Lengths(aligned_offs, unaligned_offs) ==
    [i \in 1..(Len(aligned_offs) - 1) |-> unaligned_offs[i + 1] - aligned_offs[i]]

UnalignedOffs(in) ==
    [i \in 1..Len(in.raw_offs) |-> ApplyMask(in.raw_offs[i], in.offset_size)]

AlignedOffs(in) ==
    [i \in 1..Len(in.raw_offs) |-> Align(in.alignment, UnalignedOffs(in)[i])]

\* self.files = list(starmap(afs2_file_ent_t, zip(cue_ids, aligned_offs, lengths)))
CreateFileEntries(in) ==
    LET lengths == Lengths(AlignedOffs(in), UnalignedOffs(in))
    IN  [i \in 1..Min(Len(in.cue_ids), Len(lengths)) |->
            [cue_id |-> in.cue_ids[i],
             offset |-> AlignedOffs(in)[i],
             size   |-> lengths[i]]]

\* bytes the two tables need after the 0x10-byte header
TableEnd(in) ==
    16 + Len(in.cue_ids) * in.cue_id_size + Len(in.raw_offs) * in.offset_size

\* the exception AFSArchive.__init__ raises on this buffer, "" when it returns
AFSInitError(in) ==
    IF in.nbytes < 16 THEN "struct.error"
    ELSE IF in.magic # AFS2_MAGIC THEN "ValueError"
    ELSE IF ~StructFormatOk(in.cue_id_size) \/ ~StructFormatOk(in.offset_size)
         THEN "ValueError"
    ELSE IF in.nbytes < TableEnd(in) THEN "struct.error"
    ELSE IF in.alignment = 0 THEN "ZeroDivisionError"
    ELSE ""

\* file_data(ent) = self.src.bytes(ent.size, at=ent.offset)
FileData(in, ent) == BytesAt(in.nbytes, ent.size, ent.offset)

\* index of the first entry whose cue id is cue_id, 0 when there is none
FirstMatch(fs, cue_id) ==
    IF \E i \in 1..Len(fs) : fs[i].cue_id = cue_id
    THEN CHOOSE i \in 1..Len(fs) :
            /\ fs[i].cue_id = cue_id
            /\ \A j \in 1..(i - 1) : fs[j].cue_id # cue_id
    ELSE 0

\* file_data_for_cue_id: [err, data]
FileDataForCueId(in, fs, cue_id) ==
    LET m == FirstMatch(fs, cue_id)
    IN  IF m # 0 THEN [err |-> "", data |-> FileData(in, fs[m])]
        ELSE IF Len(fs) = 0 THEN [err |-> "IndexError", data |-> NoData]
        ELSE IF fs[1].cue_id = 0 THEN [err |-> "", data |-> FileData(in, fs[1])]
        ELSE [err |-> "ValueError", data |-> NoData]

AFSInputs ==
    UNION {
        [magic       : {AFS2_MAGIC, 0},
         nbytes      : BufferSizes,
         offset_size : FieldWidths,
         cue_id_size : {2, 4},
         alignment   : AlignmentValues,
         cue_ids     : [1..n -> CueIdValues],
         raw_offs    : [1..(n + 1) -> RawOffsetValues]] : n \in 0..MaxFiles }

(***************************************************************************)
(* ACB track resolver (class TrackList): the set-waveform command          *)
(***************************************************************************)
MaxTracks == 4                \* most tracks one resolution appends

\* a track name is the sequence of its '-'-separated parts: "bgm-5" is
\* <<"bgm", 5>>, so that formatting a suffix and comparing names are the
\* string operations of the code
\* name_map.get(ReferenceIndex, "UNKNOWN-{}".format(ReferenceIndex))
BaseName(nm, ref) == IF ref \in DOMAIN nm THEN nm[ref] ELSE <<"UNKNOWN", ref>>

\* "{}-{}".format(name, n), and name += '-{}'.format(n)
Suffixed(name, n) == Append(name, n)

\* any(t.name == name for t in self.tracks)
NameTaken(ts, name) == \E i \in 1..Len(ts) : ts[i].name = name

\* a mutant of ResolveName: the two suffixes are exchanged
ResolveNameSwapped(ts, name, wav_id) ==
    IF NameTaken(ts, name)
    THEN IF NameTaken(ts, Suffixed(name, wav_id))
         THEN Suffixed(name, wav_id)
         ELSE Suffixed(name, wav_id + 1)
    ELSE name

\* the name a new track gets, given the tracks resolved so far
ResolveName(ts, name, wav_id) ==
    IF NameTaken(ts, name)
    THEN IF NameTaken(ts, Suffixed(name, wav_id))
         THEN Suffixed(name, wav_id + 1)
         ELSE Suffixed(name, wav_id)
    ELSE name

\* wav_id: MemoryAwbId of an in-memory waveform, StreamAwbId of a streamed one
WavId(w) == IF w.Streaming = 0 THEN w.MemoryAwbId ELSE w.StreamAwbId

\* stream_awb_id: -1 for an in-memory waveform, else StreamAwbPortNo
StreamAwbId(w) == IF w.Streaming = 0 THEN -1 ELSE w.StreamAwbPortNo

\* track_t(row["ReferenceIndex"], name, wav_id, enc, is_stream, stream_awb_id)
MakeTrack(ts, nm, ref, w) ==
    [cue_id        |-> ref,
     name          |-> ResolveName(ts, BaseName(nm, ref), WavId(w)),
     wav_id        |-> WavId(w),
     enc_type      |-> w.EncodeType,
     is_stream     |-> w.Streaming,
     stream_awb_id |-> StreamAwbId(w)]

WavRow(streaming, enc, mem_id, stream_id, port) ==
    [Streaming |-> streaming, EncodeType |-> enc, MemoryAwbId |-> mem_id,
     StreamAwbId |-> stream_id, StreamAwbPortNo |-> port]

(***************************************************************************)
(* ACB extractor (extract_acb)                                             *)
(***************************************************************************)
WAVEFORM_ENCODE_TYPE_ADX == 0

WAVEFORM_ENCODE_TYPE_HCA == 2

WAVEFORM_ENCODE_TYPE_VAG == 7

WAVEFORM_ENCODE_TYPE_ATRAC3 == 8

WAVEFORM_ENCODE_TYPE_BCWAV == 9

WAVEFORM_ENCODE_TYPE_NINTENDO_DSP == 13

MaxAwbs == 2                  \* most rows of the StreamAwbHash table

\* wave_type_ftable.get(enc_type, enc_type): the extension, or the raw tag
WaveTypeExt(enc) ==
    CASE enc = WAVEFORM_ENCODE_TYPE_ADX -> [ext |-> ".adx", tag |-> -1]
      [] enc = WAVEFORM_ENCODE_TYPE_HCA -> [ext |-> ".hca", tag |-> -1]
      [] enc = WAVEFORM_ENCODE_TYPE_VAG -> [ext |-> ".at3", tag |-> -1]
      [] enc = WAVEFORM_ENCODE_TYPE_ATRAC3 -> [ext |-> ".vag", tag |-> -1]
      [] enc = WAVEFORM_ENCODE_TYPE_BCWAV -> [ext |-> ".bcwav", tag |-> -1]
      [] enc = WAVEFORM_ENCODE_TYPE_NINTENDO_DSP -> [ext |-> ".dsp", tag |-> -1]
      [] OTHER -> [ext |-> "", tag |-> enc]

\* name = "{0}{1}".format(track.name, wave_type_ftable.get(...))
FileName(t) == [name |-> t.name, suffix |-> WaveTypeExt(t.enc_type)]

\* a zero-length buffer
EmptyBuffer ==
    [magic |-> 0, nbytes |-> 0, offset_size |-> 2, cue_id_size |-> 2,
     alignment |-> 0, cue_ids |-> <<>>, raw_offs |-> <<>>]

\* io.BytesIO(...) that was not parsed: it has no file_data_for_cue_id
UnparsedBytesIO == [tag |-> -1, parsed |-> FALSE, in |-> EmptyBuffer, files |-> <<>>]

\* AFSArchive(buffer); tag tells the buffers apart (-1 the AwbFile blob, k >= 0
\* the sibling named by StreamAwbHash row k)
ParsedArchive(tag, in) ==
    [tag |-> tag, parsed |-> TRUE, in |-> in, files |-> CreateFileEntries(in)]

\* the content of a file: the bytes of buffer `tag` in `range`; b"" wherever
\* it was read
EmptyContent == <<-2, NoData>>

Content(tag, range) == IF range = NoData THEN EmptyContent ELSE <<tag, range>>

\* the StreamAwbHash loop from row k on: external_awbs grows by the archive of
\* every sibling that exists; a ValueError ends the loop silently, any other
\* exception leaves extract_acb.  [err, awbs]
RECURSIVE ExternalAwbsFrom(_, _, _)
ExternalAwbsFrom(hash_rows, k, acc) ==
    IF k > Len(hash_rows) THEN [err |-> "", awbs |-> acc]
    ELSE IF ~hash_rows[k].exists THEN ExternalAwbsFrom(hash_rows, k + 1, acc)
    ELSE LET e == AFSInitError(hash_rows[k].in)
         IN  IF e = "" THEN ExternalAwbsFrom(hash_rows, k + 1,
                                Append(acc, ParsedArchive(k - 1, hash_rows[k].in)))
             ELSE IF e = "ValueError" THEN [err |-> "", awbs |-> acc]
             ELSE [err |-> e, awbs |-> acc]

\* data_source = embedded_awb if is_stream == 0 else external_awbs[stream_awb_id]
SelectSource(t, emb, exts) ==
    IF t.is_stream = 0 THEN [err |-> "", src |-> emb]
    ELSE IF t.stream_awb_id < Len(exts)
         THEN [err |-> "", src |-> exts[t.stream_awb_id + 1]]
         ELSE [err |-> "IndexError", src |-> UnparsedBytesIO]

\* data_source.file_data_for_cue_id(track.wav_id): [err, data]
TrackData(t, emb, exts) ==
    LET s == SelectSource(t, emb, exts)
    IN  IF s.err # "" THEN [err |-> s.err, data |-> EmptyContent]
        ELSE IF ~s.src.parsed THEN [err |-> "AttributeError", data |-> EmptyContent]
        ELSE LET r == FileDataForCueId(s.src.in, s.src.files, t.wav_id)
             IN  [err |-> r.err, data |-> Content(s.src.tag, r.data)]

\* open(path, "wb") creates or truncates the file; write(data) fills it
WriteFile(fs, fname, content) ==
    [f \in (DOMAIN fs) \cup {fname} |-> IF f = fname THEN content ELSE fs[f]]

(***************************************************************************)
(* UTF table reader (class R, class UTFTable)                              *)
(***************************************************************************)
UTF_MAGIC == 1079333958       \* 0x40555446

COLUMN_STORAGE_CONSTANT == 48

COLUMN_STORAGE_CONSTANT2 == 112

COLUMN_STORAGE_PERROW == 80

COLUMN_TYPE_DATA == 11

COLUMN_TYPE_STRING == 10

COLUMN_TYPE_FLOAT == 8

COLUMN_TYPE_8BYTE == 6

COLUMN_TYPE_4BYTE2 == 5

COLUMN_TYPE_4BYTE == 4

COLUMN_TYPE_2BYTE2 == 3

COLUMN_TYPE_2BYTE == 2

COLUMN_TYPE_1BYTE2 == 1

COLUMN_TYPE_1BYTE == 0

\* struct: big-endian unsigned reads at byte position pos (0-based)
U8(buf, pos) == buf[pos + 1]

U16(buf, pos) == buf[pos + 1] * 256 + buf[pos + 2]

U32(buf, pos) ==
    buf[pos + 1] * 16777216 + buf[pos + 2] * 65536 + buf[pos + 3] * 256 + buf[pos + 4]

\* f.read(n) at pos returned all n bytes (struct.unpack raises otherwise)
CanRead(buf, pos, n) == pos + n <= Len(buf)

\* R.bytes(size, at): the bytes the buffer holds in [at, at + size)
Bytes(buf, size, at) ==
    IF at >= Len(buf) THEN <<>>
    ELSE SubSeq(buf, at + 1, Min(at + size, Len(buf)))

\* R.string0(at): the bytes up to the first NUL at or after `at`; Exception("EOF")
\* when the buffer ends before a NUL
String0(buf, at) ==
    LET nuls == {q \in at..(Len(buf) - 1) : buf[q + 1] = 0}
    IN  IF nuls = {} THEN [err |-> "EOF", s |-> <<>>]
        ELSE LET q == CHOOSE x \in nuls : \A y \in nuls : x <= y
             IN  [err |-> "", s |-> SubSeq(buf, at + 1, q)]

\* bytes one value of the type takes in the schema and in a row
\* (column_data_dtable / column_data_stable); 0 for a type key of neither table
TypeWidth(type_key) ==
    CASE type_key = COLUMN_TYPE_DATA -> 8
      [] type_key = COLUMN_TYPE_STRING -> 4
      [] type_key = COLUMN_TYPE_FLOAT -> 4
      [] type_key = COLUMN_TYPE_8BYTE -> 8
      [] type_key \in {COLUMN_TYPE_4BYTE2, COLUMN_TYPE_4BYTE} -> 4
      [] type_key \in {COLUMN_TYPE_2BYTE2, COLUMN_TYPE_2BYTE} -> 2
      [] type_key \in {COLUMN_TYPE_1BYTE2, COLUMN_TYPE_1BYTE} -> 1
      [] OTHER -> 0

\* a value of a row: kind "num" holds the number's big-endian bytes, "str" the
\* bytes of a string, "bytes" a blob, "promise" a reference not resolved yet
Value(kind, type_key, v) == [kind |-> kind, t |-> type_key, v |-> v]

\* buf.struct(utf_header_t): the nine header fields after the magic
ReadHeader(buf) ==
    [table_size          |-> U32(buf, 4),
     u1                  |-> U16(buf, 8),
     row_offset          |-> U16(buf, 10),
     string_table_offset |-> U32(buf, 12),
     data_offset         |-> U32(buf, 16),
     table_name_offset   |-> U32(buf, 20),
     number_of_fields    |-> U16(buf, 24),
     row_size            |-> U16(buf, 26),
     number_of_rows      |-> U32(buf, 28)]

NoHeader ==
    [table_size |-> 0, u1 |-> 0, row_offset |-> 0, string_table_offset |-> 0,
     data_offset |-> 0, table_name_offset |-> 0, number_of_fields |-> 0,
     row_size |-> 0, number_of_rows |-> 0]

\* UTFTable.__init__ up to the table name: the exception raised, "" when none
HeaderError(buf) ==
    IF Len(buf) = 0 THEN "AssertionError"
    ELSE IF ~CanRead(buf, 0, 4) THEN "struct.error"
    ELSE IF U32(buf, 0) # UTF_MAGIC THEN "ValueError"
    ELSE IF ~CanRead(buf, 4, 28) THEN "struct.error"
    ELSE String0(buf, ReadHeader(buf).string_table_offset + 8
                      + ReadHeader(buf).table_name_offset).err

\* promise_data / promise_string called with the header; a data reference is
\* read with R.bytes, which returns what the buffer has
ResolveRef(buf, hdr, type_key, ref) ==
    IF type_key = COLUMN_TYPE_DATA
    THEN [err |-> "",
          val |-> Value("bytes", type_key,
                        Bytes(buf, ref[2], hdr.data_offset + 8 + ref[1]))]
    ELSE LET r == String0(buf, hdr.string_table_offset + 8 + ref[1])
         IN  [err |-> r.err, val |-> Value("str", type_key, r.s)]

\* the reference stored in the width bytes at pos: (offset, size) or (offset)
RefAt(buf, type_key, pos) ==
    IF type_key = COLUMN_TYPE_DATA THEN <<U32(buf, pos), U32(buf, pos + 4)>>
    ELSE <<U32(buf, pos)>>

IsRefType(type_key) == type_key \in {COLUMN_TYPE_DATA, COLUMN_TYPE_STRING}

\* column_data_dtable[type_key](buf): a number, or a promise for string/data
ConstantAt(buf, type_key, pos) ==
    IF IsRefType(type_key)
    THEN Value("promise", type_key, RefAt(buf, type_key, pos))
    ELSE Value("num", type_key, SubSeq(buf, pos + 1, pos + TypeWidth(type_key)))

\* dict assignment d[k] = v
DictPut(d, k, v) == [x \in (DOMAIN d) \cup {k} |-> IF x = k THEN v ELSE d[x]]

\* the field loop of read_schema from field k on, the cursor at pos
RECURSIVE SchemaFrom(_, _, _, _, _, _, _)
SchemaFrom(buf, hdr, k, pos, dyn, fmt, consts) ==
    IF k > hdr.number_of_fields
    THEN [err |-> "", dynamic_keys |-> dyn, format |-> fmt, constants |-> consts]
    ELSE IF ~CanRead(buf, pos, 5)
    THEN [err |-> "struct.error", dynamic_keys |-> dyn, format |-> fmt,
          constants |-> consts]
    ELSE LET field_type == U8(buf, pos)
             name == String0(buf, hdr.string_table_offset + 8 + U32(buf, pos + 1))
             occurrence == (field_type \div 16) * 16
             type_key == field_type % 16
             w == TypeWidth(type_key)
             fail(e) == [err |-> e, dynamic_keys |-> dyn, format |-> fmt,
                         constants |-> consts]
         IN  IF name.err # "" THEN fail(name.err)
             ELSE IF w = 0 THEN fail("KeyError")
             ELSE IF occurrence \in {COLUMN_STORAGE_CONSTANT, COLUMN_STORAGE_CONSTANT2}
             THEN IF ~CanRead(buf, pos + 5, w) THEN fail("struct.error")
                  ELSE SchemaFrom(buf, hdr, k + 1, pos + 5 + w, dyn, fmt,
                           DictPut(consts, name.s, ConstantAt(buf, type_key, pos + 5)))
             ELSE SchemaFrom(buf, hdr, k + 1, pos + 5, Append(dyn, name.s),
                             Append(fmt, type_key), consts)

\* for k in constants: if callable(constants[k]): constants[k] = constants[k](header)
ResolveConstants(buf, hdr, consts) ==
    LET res(k) == IF consts[k].kind = "promise"
                  THEN ResolveRef(buf, hdr, consts[k].t, consts[k].v)
                  ELSE [err |-> "", val |-> consts[k]]
    IN  IF \E k \in DOMAIN consts : res(k).err # ""
        THEN [err |-> "EOF", constants |-> consts]
        ELSE [err |-> "", constants |-> [k \in DOMAIN consts |-> res(k).val]]

\* read_schema: [err, dynamic_keys, format, constants]
ReadSchema(buf, hdr) ==
    LET s == SchemaFrom(buf, hdr, 1, 32, <<>>, <<>>, <<>>)
        c == ResolveConstants(buf, hdr, s.constants)
    IN  IF s.err # "" THEN s
        ELSE [err |-> c.err, dynamic_keys |-> s.dynamic_keys, format |-> s.format,
              constants |-> c.constants]

\* struct.calcsize(self.struct_format)
RECURSIVE FormatSize(_)
FormatSize(fmt) ==
    IF fmt = <<>> THEN 0 ELSE TypeWidth(Head(fmt)) + FormatSize(Tail(fmt))

\* UTFTable.resolve applied to the values unpacked at pos: [err, values]
RECURSIVE ResolveFrom(_, _, _, _, _, _)
ResolveFrom(buf, hdr, fmt, k, pos, acc) ==
    IF k > Len(fmt) THEN [err |-> "", values |-> acc]
    ELSE LET t == fmt[k]
             v == IF IsRefType(t) THEN ResolveRef(buf, hdr, t, RefAt(buf, t, pos))
                  ELSE [err |-> "",
                        val |-> Value("num", t, SubSeq(buf, pos + 1, pos + TypeWidth(t)))]
         IN  IF v.err # "" THEN [err |-> v.err, values |-> acc]
             ELSE ResolveFrom(buf, hdr, fmt, k + 1, pos + TypeWidth(t),
                              Append(acc, v.val))

\* a mutant of RowDict: the constants are merged into the first row only
RowDictFirstOnly(n, keys, values, consts) ==
    LET named == {keys[i] : i \in 1..Len(keys)}
        last(k) == CHOOSE i \in 1..Len(keys) :
                       keys[i] = k /\ \A j \in 1..Len(keys) : keys[j] = k => j <= i
    IN  IF n = 1
        THEN [k \in named \cup DOMAIN consts |->
                 IF k \in DOMAIN consts THEN consts[k] ELSE values[last(k)]]
        ELSE [k \in named |-> values[last(k)]]

\* ret = {k: v for k, v in zip(dynamic_keys, values)}; ret.update(constants)
\* for row n
RowDict(n, keys, values, consts) ==
    LET named == {keys[i] : i \in 1..Len(keys)}
        last(k) == CHOOSE i \in 1..Len(keys) :
                       keys[i] = k /\ \A j \in 1..Len(keys) : keys[j] = k => j <= i
    IN  [k \in named \cup DOMAIN consts |->
            IF k \in DOMAIN consts THEN consts[k] ELSE values[last(k)]]

\* one iteration of iter_rows, for row n (1-based): [err, row]
ReadRow(buf, hdr, keys, fmt, consts, n) ==
    LET pos == hdr.row_offset + 8 + (n - 1) * FormatSize(fmt)
        r == ResolveFrom(buf, hdr, fmt, 1, pos, <<>>)
    IN  IF ~CanRead(buf, pos, FormatSize(fmt)) /\ FormatSize(fmt) > 0
        THEN [err |-> "struct.error", row |-> <<>>]
        ELSE IF r.err # "" THEN [err |-> r.err, row |-> <<>>]
        ELSE [err |-> "", row |-> RowDict(n, keys, r.values, consts)]

\* the detailed track resolver before it is given the tables
ResIdle ==
    /\ acb = [flat |-> FALSE, cues |-> <<>>, tras |-> <<>>, tevs |-> <<>>]
    /\ cue_i = 0

\* the USM demuxer before it is called
USMIdle ==
    /\ usm_in = [blocks |-> <<>>, key |-> FALSE]
    /\ usm_pos = 0
    /\ hasAudio = FALSE
    /\ usm_files = <<>>
    /\ usm_pc = "idle"
    /\ usm_err = ""

\* the segment loop before it is called
SegIdle ==
    /\ curve_in = <<>>
    /\ segments = <<>>
    /\ seg_j = 0
    /\ total_segment_count = 0
    /\ total_point_count = 0
    /\ seg_pc = "idle"

\* the moc3 reader before it is called
MocIdle ==
    /\ moc3 = [part_base |-> 0, part_end |-> 0, part_names |-> <<>>,
               param_base |-> 0, param_end |-> 0, param_names |-> <<>>]
    /\ cursor = 0
    /\ param_id_map = <<>>
    /\ moc_pc = "idle"

\* no call of get_mask was made
MaskIdle == mask_calls = <<>>

\* no reader exists
RdIdle ==
    /\ rd_buf = <<>>
    /\ rd_script = <<>>
    /\ rd_pos = <<>>
    /\ rd_ip = <<>>
    /\ rd_back = <<>>
    /\ rd_out = <<>>

\* the interpreter loop is not running
IpIdle ==
    /\ ip_command = <<>>
    /\ ip_k = 0
    /\ ip_origin = <<>>
    /\ ip_pc = "idle"

\* the data loop is not running
DlIdle ==
    /\ dl_in = [chunks |-> <<>>, key |-> <<>>, audio |-> FALSE]
    /\ dl_stream = <<>>
    /\ dl_pos = 0
    /\ dl_files = <<>>
    /\ dl_pc = "idle"
    /\ dl_err = ""

\* get_utf_table is not running
GtIdle ==
    /\ gt_buf = <<>>
    /\ gt_rows = <<>>
    /\ gt_ref = [err |-> "", rows |-> <<>>]
    /\ gt_pc = "idle"
    /\ gt_err = ""

\* process_streamed_clip is not running
PscIdle ==
    /\ psc_in = <<>>
    /\ psc_ret = <<>>
    /\ psc_k = 0
    /\ psc_pc = "idle"

\* the decode loops are not running
DcIdle ==
    /\ dc_in = <<>>
    /\ dc_tracks = <<>>
    /\ dc_n = 0
    /\ dc_pc = "idle"
    /\ dc_err = ""

\* main is not running
UpIdle ==
    /\ up_fs = <<>>
    /\ up_server = <<>>
    /\ up_list = <<>>
    /\ up_run = 0
    /\ up_queried = FALSE
    /\ up_resumed = FALSE
    /\ up_pc = "idle"

\* the later sections are not running
LateIdle ==
    IpIdle /\ DlIdle /\ GtIdle /\ PscIdle /\ DcIdle /\ UpIdle

\* the decoders outside AFSArchive, UTFTable and extract_acb are not running
ExtIdle ==
    ResIdle /\ USMIdle /\ SegIdle /\ MocIdle /\ MaskIdle /\ RdIdle /\ LateIdle

\* the table reader before it is given a buffer
UTFIdle ==
    /\ utf_desc = [fault |-> "none", fields |-> <<>>, nrows |-> 0]
    /\ utf_buf = <<>>
    /\ header = NoHeader
    /\ table_name = <<>>
    /\ dynamic_keys = <<>>
    /\ struct_format = <<>>
    /\ constants = <<>>
    /\ rows = <<>>
    /\ utf_pc = "idle"
    /\ utf_err = ""

\* the track resolver before it is called
TLIdle ==
    /\ name_map = <<>>
    /\ tracks = <<>>
    /\ tl_pc = "idle"
    /\ tl_err = ""

\* the extractor before it is called
EXIdle ==
    /\ awb_file = EmptyBuffer
    /\ stream_awb_hash = "table"
    /\ stream_awbs = <<>>
    /\ embedded_awb = UnparsedBytesIO
    /\ external_awbs = <<>>
    /\ out_fs = <<>>
    /\ outputs = <<>>
    /\ ex_i = 0
    /\ ex_pc = "idle"
    /\ ex_err = ""

\* the AFS2 reader before it is given a buffer
AFSIdle ==
    /\ afs_in = EmptyBuffer
    /\ afs_pc = "idle"
    /\ afs_err = ""
    /\ files = <<>>
    /\ lookup_id = -1
    /\ lookup_res = NoData

InitAFS ==
    /\ afs_in \in AFSInputs
    /\ afs_pc = "start"
    /\ afs_err = ""
    /\ files = <<>>
    /\ lookup_id = -1
    /\ lookup_res = NoData
    /\ TLIdle
    /\ EXIdle
    /\ UTFIdle
    /\ ExtIdle

\* AFSArchive.__init__ returns
AFSArchiveInit ==
    /\ afs_pc = "start"
    /\ AFSInitError(afs_in) = ""
    /\ files' = CreateFileEntries(afs_in)
    /\ afs_pc' = "parsed"
    /\ UNCHANGED <<afs_in, afs_err, lookup_id, lookup_res, tlVars, exVars, utfVars, extVars>>

\* AFSArchive.__init__ raises
AFSArchiveInitFails ==
    /\ afs_pc = "start"
    /\ AFSInitError(afs_in) # ""
    /\ afs_err' = AFSInitError(afs_in)
    /\ afs_pc' = "failed"
    /\ UNCHANGED <<afs_in, files, lookup_id, lookup_res, tlVars, exVars, utfVars, extVars>>

\* one call of file_data_for_cue_id on the parsed archive
AFSLookup ==
    /\ afs_pc = "parsed"
    /\ \E id \in CueIdValues :
          LET r == FileDataForCueId(afs_in, files, id)
          IN  /\ lookup_id' = id
              /\ lookup_res' = r.data
              /\ afs_err' = r.err
    /\ afs_pc' = "looked"
    /\ UNCHANGED <<afs_in, files, tlVars, exVars, utfVars, extVars>>

NextAFS == AFSArchiveInit \/ AFSArchiveInitFails \/ AFSLookup

SpecAFS == InitAFS /\ [][NextAFS]_vars

(***************************************************************************)
(* Track resolution: one step per executed set-waveform (0x07D0) command. *)
(* The cue, sequence, track and command loops decide which Cue row and    *)
(* which Waveform row the next command sees; here they are any member of  *)
(* the given sets.                                                         *)
(***************************************************************************)
Bgm == <<"bgm">>

RefIndexes == {0, 1}

NameMaps == { (0 :> Bgm) @@ (1 :> Bgm),
              (0 :> Bgm) @@ (1 :> <<"bgm", 5>>),
              (0 :> Bgm) }

WavRows == { WavRow(0, WAVEFORM_ENCODE_TYPE_HCA, 5, 0, 0),
             WavRow(0, WAVEFORM_ENCODE_TYPE_HCA, 6, 0, 0),
             WavRow(1, WAVEFORM_ENCODE_TYPE_HCA, 0, 5, 0),
             WavRow(0, WAVEFORM_ENCODE_TYPE_ADX, 5, 0, 0) }

\* ReferenceItems of the Synth row: (a, wav_idx); a # 1 is skipped
SynthKinds == {1, 2}

\* TrackList.__init__ raised: inside extract_acb the exception leaves it too
Raise(err) ==
    /\ tl_pc' = "failed"
    /\ tl_err' = err
    /\ ex_pc' = IF ex_pc = "idle" THEN "idle" ELSE "failed"
    /\ ex_err' = IF ex_pc = "idle" THEN "" ELSE err

\* cmd == 0x07d0 with a waveform that passes the assertions
SetWaveformOn(refs, wav_rows) ==
    /\ tl_pc = "resolving"
    /\ Len(tracks) < MaxTracks
    /\ \E ref \in refs, a \in SynthKinds, w \in wav_rows :
          /\ a = 1 => w.EncodeType = WAVEFORM_ENCODE_TYPE_HCA
          /\ tracks' = IF a # 1 THEN tracks
                       ELSE Append(tracks, MakeTrack(tracks, name_map, ref, w))
    /\ UNCHANGED <<name_map, tl_pc, tl_err, afsVars, exVars, utfVars, extVars>>

\* cmd == 0x07d0 with assert (wavs.rows[wav_idx]["EncodeType"] == 2) failing
SetWaveformAssertFailsOn(wav_rows) ==
    /\ tl_pc = "resolving"
    /\ \E w \in wav_rows : w.EncodeType # WAVEFORM_ENCODE_TYPE_HCA
    /\ Raise("AssertionError")
    /\ UNCHANGED <<name_map, tracks, afsVars, awb_file, stream_awb_hash, stream_awbs, embedded_awb,
                   external_awbs, out_fs, outputs, ex_i, utfVars, extVars>>

\* the cue loop is exhausted: TrackList.__init__ returns
TrackListReturn ==
    /\ tl_pc = "resolving"
    /\ tl_pc' = "done"
    /\ UNCHANGED <<name_map, tracks, tl_err, afsVars, exVars, utfVars, extVars>>

TLSetWaveform == SetWaveformOn(RefIndexes, WavRows)

TLSetWaveformAssertFails == SetWaveformAssertFailsOn(WavRows)

InitTrackList ==
    /\ name_map \in NameMaps
    /\ tracks = <<>>
    /\ tl_pc = "resolving"
    /\ tl_err = ""
    /\ AFSIdle
    /\ EXIdle
    /\ UTFIdle
    /\ ExtIdle

NextTrackList == TLSetWaveform \/ TLSetWaveformAssertFails \/ TrackListReturn

SpecTrackList == InitTrackList /\ [][NextTrackList]_vars

(***************************************************************************)
(* extract_acb: track resolution, then the archives, then the track loop   *)
(***************************************************************************)
\* a well-formed archive of the given cue ids and raw offsets
Archive(cue_ids, raw_offs) ==
    [magic |-> AFS2_MAGIC, nbytes |-> 300, offset_size |-> 4, cue_id_size |-> 2,
     alignment |-> 32, cue_ids |-> cue_ids, raw_offs |-> raw_offs]

BadMagicBuffer == [Archive(<<0>>, <<32, 100>>) EXCEPT !.magic = 0]

AwbFileChoices == { EmptyBuffer,
                    Archive(<<0>>, <<32, 100>>),
                    Archive(<<1, 2>>, <<32, 100, 250>>),
                    BadMagicBuffer }

\* the sibling named by StreamAwbHash row k: absent, an archive, or no archive
StreamAwbChoices(k) ==
    { [exists |-> FALSE, in |-> EmptyBuffer],
      [exists |-> TRUE, in |-> Archive(<<k % 2>>, <<32, 100>>)],
      [exists |-> TRUE, in |-> BadMagicBuffer] }

StreamAwbTables ==
    UNION { { t \in [1..h -> UNION {StreamAwbChoices(k) : k \in 1..h}] :
                \A k \in 1..h : t[k] \in StreamAwbChoices(k) } : h \in 0..MaxAwbs }

ExRefIndexes == {0}

ExWavRows == { WavRow(0, WAVEFORM_ENCODE_TYPE_HCA, 0, 0, 0),
               WavRow(0, WAVEFORM_ENCODE_TYPE_HCA, 1, 0, 0),
               WavRow(1, WAVEFORM_ENCODE_TYPE_HCA, 0, 1, 0),
               WavRow(1, WAVEFORM_ENCODE_TYPE_HCA, 0, 0, 1),
               WavRow(0, WAVEFORM_ENCODE_TYPE_ADX, 0, 0, 0) }

EXSetWaveform == SetWaveformOn(ExRefIndexes, ExWavRows)

EXSetWaveformAssertFails == SetWaveformAssertFailsOn(ExWavRows)

\* the forms of the ACB's StreamAwbHash field, and the rows of each
StreamAwbHashForms ==
    { [form |-> "absent", hash_rows |-> <<>>], [form |-> "empty", hash_rows |-> <<>>] }
        \cup { [form |-> "table", hash_rows |-> t] : t \in StreamAwbTables }

\* line 565: utf.rows[0]['StreamAwbHash'] of a row without the field raises
\* KeyError; UTFTable of a zero-length BytesIO fails its assertion (line 254)
StreamAwbHashError ==
    CASE stream_awb_hash = "absent" -> "KeyError"
      [] stream_awb_hash = "empty" -> "AssertionError"
      [] OTHER -> ""

\* the exception lines 560-573 raise, "" when they reach the track loop; the
\* try of line 564 catches ValueError only
OpenArchivesError ==
    IF awb_file.nbytes # 0 /\ AFSInitError(awb_file) # ""
    THEN AFSInitError(awb_file)
    ELSE IF StreamAwbHashError # "" THEN StreamAwbHashError
    ELSE ExternalAwbsFrom(stream_awbs, 1, <<>>).err

\* embedded_awb and external_awbs are set up
ExtractOpenArchives ==
    /\ ex_pc = "start"
    /\ tl_pc = "done"
    /\ OpenArchivesError = ""
    /\ embedded_awb' = IF awb_file.nbytes # 0 THEN ParsedArchive(-1, awb_file)
                       ELSE UnparsedBytesIO
    /\ external_awbs' = ExternalAwbsFrom(stream_awbs, 1, <<>>).awbs
    /\ ex_i' = 1
    /\ ex_pc' = "loop"
    /\ UNCHANGED <<awb_file, stream_awb_hash, stream_awbs, out_fs, outputs, ex_err, afsVars, tlVars, utfVars, extVars>>

\* parsing the embedded archive or a sibling raises
ExtractOpenArchivesFails ==
    /\ ex_pc = "start"
    /\ tl_pc = "done"
    /\ OpenArchivesError # ""
    /\ ex_err' = OpenArchivesError
    /\ ex_pc' = "failed"
    /\ UNCHANGED <<awb_file, stream_awb_hash, stream_awbs, embedded_awb, external_awbs, out_fs,
                   outputs, ex_i, afsVars, tlVars, utfVars, extVars>>

\* one iteration of the track loop that completes
ExtractTrack ==
    /\ ex_pc = "loop"
    /\ ex_i <= Len(tracks)
    /\ LET t == tracks[ex_i]
           r == TrackData(t, embedded_awb, external_awbs)
       IN  /\ r.err = ""
           /\ out_fs' = WriteFile(out_fs, FileName(t), r.data)
           /\ outputs' = Append(outputs, FileName(t))
    /\ ex_i' = ex_i + 1
    /\ UNCHANGED <<awb_file, stream_awb_hash, stream_awbs, embedded_awb, external_awbs, ex_pc,
                   ex_err, afsVars, tlVars, utfVars, extVars>>

\* one iteration of the track loop that raises inside the with block: the
\* file was opened "wb" before the source was selected and read
ExtractTrackFails ==
    /\ ex_pc = "loop"
    /\ ex_i <= Len(tracks)
    /\ LET t == tracks[ex_i]
           r == TrackData(t, embedded_awb, external_awbs)
       IN  /\ r.err # ""
           /\ out_fs' = WriteFile(out_fs, FileName(t), EmptyContent)
           /\ ex_err' = r.err
    /\ ex_pc' = "failed"
    /\ UNCHANGED <<awb_file, stream_awb_hash, stream_awbs, embedded_awb, external_awbs, outputs,
                   ex_i, afsVars, tlVars, utfVars, extVars>>

\* the loop is exhausted: return outputs
ExtractReturn ==
    /\ ex_pc = "loop"
    /\ ex_i > Len(tracks)
    /\ ex_pc' = "done"
    /\ UNCHANGED <<awb_file, stream_awb_hash, stream_awbs, embedded_awb, external_awbs, out_fs,
                   outputs, ex_i, ex_err, afsVars, tlVars, utfVars, extVars>>

InitExtract ==
    /\ name_map = (0 :> Bgm)
    /\ tracks = <<>>
    /\ tl_pc = "resolving"
    /\ tl_err = ""
    /\ awb_file \in AwbFileChoices
    /\ \E h \in StreamAwbHashForms :
          /\ stream_awb_hash = h.form
          /\ stream_awbs = h.hash_rows
    /\ embedded_awb = UnparsedBytesIO
    /\ external_awbs = <<>>
    /\ out_fs = <<>>
    /\ outputs = <<>>
    /\ ex_i = 0
    /\ ex_pc = "start"
    /\ ex_err = ""
    /\ AFSIdle
    /\ UTFIdle
    /\ ExtIdle

NextExtract ==
    \/ EXSetWaveform
    \/ EXSetWaveformAssertFails
    \/ TrackListReturn
    \/ ExtractOpenArchives
    \/ ExtractOpenArchivesFails
    \/ ExtractTrack
    \/ ExtractTrackFails
    \/ ExtractReturn

SpecExtract == InitExtract /\ [][NextExtract]_vars

(***************************************************************************)
(* UTFTable(file) on buffers built from small tables                        *)
(***************************************************************************)
MaxFields == 2                \* most fields of a modelled table

MaxRows == 2                  \* most rows of a modelled table

\* an offset past the end of every modelled buffer
OutOfRange == 250

\* c: constant storage, r: per-row storage; 8: a one-byte number, str: a
\* string, data: a blob; _out: the reference points past the buffer, _trunc:
\* the blob's size reaches past the buffer (per-row: in the last row)
FieldKinds == {"c8", "cstr", "cstr_out", "cdata", "cdata_trunc",
               "r8", "rstr", "rstr_out", "rdata", "rdata_trunc"}

Faults == {"none", "magic", "row_offset", "string_offset", "data_offset",
           "name_offset", "short_header", "empty"}

IsConstantKind(kind) == kind \in {"c8", "cstr", "cstr_out", "cdata", "cdata_trunc"}

IsDataKind(kind) == kind \in {"cdata", "cdata_trunc", "rdata", "rdata_trunc"}

IsStringKind(kind) == kind \in {"cstr", "cstr_out", "rstr", "rstr_out"}

Enc16(n) == <<n \div 256, n % 256>>

Enc32(n) == <<0, 0>> \o Enc16(n)

RECURSIVE Flatten(_)
Flatten(ss) == IF ss = <<>> THEN <<>> ELSE Head(ss) \o Flatten(Tail(ss))

\* the string table: "T", the field names "A", "B", ..., then "hi"
FieldName(i) == <<64 + i>>

StringTable(nf) == <<84, 0>> \o Flatten([i \in 1..nf |-> <<64 + i, 0>>]) \o <<104, 105, 0>>

HiOffset(nf) == 2 * (nf + 1)

DataRegion == <<1, 2, 3, 4>>

\* the type/storage tag of a field
FieldTag(kind) ==
    CASE kind = "c8" -> COLUMN_STORAGE_CONSTANT2 + COLUMN_TYPE_1BYTE
      [] kind \in {"cstr", "cstr_out"} -> COLUMN_STORAGE_CONSTANT + COLUMN_TYPE_STRING
      [] kind \in {"cdata", "cdata_trunc"} -> COLUMN_STORAGE_CONSTANT + COLUMN_TYPE_DATA
      [] kind = "r8" -> COLUMN_STORAGE_PERROW + COLUMN_TYPE_1BYTE
      [] kind \in {"rstr", "rstr_out"} -> COLUMN_STORAGE_PERROW + COLUMN_TYPE_STRING
      [] OTHER -> COLUMN_STORAGE_PERROW + COLUMN_TYPE_DATA

\* the (offset, size) a data field declares; the size a blob of row r declares
DeclaredSize(d, i, r) ==
    IF d.fields[i] = "cdata_trunc" \/ (d.fields[i] = "rdata_trunc" /\ r = d.nrows)
    THEN 8 ELSE 2

DataRef(d, i, r) ==
    IF DeclaredSize(d, i, r) = 8 THEN Enc32(1) \o Enc32(8) ELSE Enc32(0) \o Enc32(2)

StringRef(d, i, r) ==
    IF d.fields[i] = "cstr_out" \/ (d.fields[i] = "rstr_out" /\ r = d.nrows)
    THEN Enc32(OutOfRange) ELSE Enc32(HiOffset(Len(d.fields)))

\* the value bytes of field i as stored in the schema (r = 0) or in row r
StoredValue(d, i, r) ==
    IF IsDataKind(d.fields[i]) THEN DataRef(d, i, r)
    ELSE IF IsStringKind(d.fields[i]) THEN StringRef(d, i, r)
    ELSE IF r = 0 THEN <<7>> ELSE <<r>>

SchemaBytes(d) ==
    Flatten([i \in 1..Len(d.fields) |->
        <<FieldTag(d.fields[i])>>
        \o Enc32(IF d.fault = "name_offset" /\ i = 1 THEN OutOfRange ELSE 2 * i)
        \o (IF IsConstantKind(d.fields[i]) THEN StoredValue(d, i, 0) ELSE <<>>)])

RowBytes(d) ==
    Flatten([r \in 1..d.nrows |->
        Flatten([i \in 1..Len(d.fields) |->
            IF IsConstantKind(d.fields[i]) THEN <<>> ELSE StoredValue(d, i, r)])])

\* the buffer of table d: header, schema, rows, string table, data
Encode(d) ==
    LET schema == SchemaBytes(d)
        rowb == RowBytes(d)
        strs == StringTable(Len(d.fields))
        row_offset == 32 + Len(schema) - 8
        string_offset == row_offset + Len(rowb)
        data_offset == string_offset + Len(strs)
        whole ==
            (IF d.fault = "magic" THEN <<65, 85, 84, 70>> ELSE <<64, 85, 84, 70>>)
            \o Enc32(data_offset + Len(DataRegion))
            \o Enc16(1)
            \o Enc16(IF d.fault = "row_offset" THEN OutOfRange ELSE row_offset)
            \o Enc32(IF d.fault = "string_offset" THEN OutOfRange ELSE string_offset)
            \o Enc32(IF d.fault = "data_offset" THEN OutOfRange ELSE data_offset)
            \o Enc32(0)
            \o Enc16(Len(d.fields))
            \o Enc16(IF d.nrows = 0 THEN 0 ELSE Len(rowb) \div d.nrows)
            \o Enc32(d.nrows)
            \o schema \o rowb \o strs \o DataRegion
    IN  IF d.fault = "empty" THEN <<>>
        ELSE IF d.fault = "short_header" THEN SubSeq(whole, 1, 20)
        ELSE whole

UTFDescs ==
    { d \in [fault  : Faults,
             fields : UNION {[1..n -> FieldKinds] : n \in 0..MaxFields},
             nrows  : 0..MaxRows] :
        /\ d.fault = "name_offset" => Len(d.fields) >= 1
        /\ d.fault = "row_offset" => d.nrows >= 1
        /\ d.fault = "data_offset" => \E i \in 1..Len(d.fields) : IsDataKind(d.fields[i]) }

InitUTF ==
    /\ utf_desc \in UTFDescs
    /\ utf_buf = Encode(utf_desc)
    /\ header = NoHeader
    /\ table_name = <<>>
    /\ dynamic_keys = <<>>
    /\ struct_format = <<>>
    /\ constants = <<>>
    /\ rows = <<>>
    /\ utf_pc = "start"
    /\ utf_err = ""
    /\ AFSIdle
    /\ TLIdle
    /\ EXIdle
    /\ ExtIdle

\* lines 253-262: the magic, the header and the table name
UTFHeader ==
    /\ utf_pc = "start"
    /\ HeaderError(utf_buf) = ""
    /\ header' = ReadHeader(utf_buf)
    /\ table_name' = String0(utf_buf, ReadHeader(utf_buf).string_table_offset + 8
                                      + ReadHeader(utf_buf).table_name_offset).s
    /\ utf_pc' = "schema"
    /\ UNCHANGED <<utf_desc, utf_buf, dynamic_keys, struct_format, constants, rows,
                   utf_err, afsVars, tlVars, exVars, extVars>>

\* lines 264-265: read_schema
UTFReadSchema ==
    /\ utf_pc = "schema"
    /\ LET s == ReadSchema(utf_buf, header)
       IN  /\ s.err = ""
           /\ dynamic_keys' = s.dynamic_keys
           /\ struct_format' = s.format
           /\ constants' = s.constants
    /\ utf_pc' = "rows"
    /\ UNCHANGED <<utf_desc, utf_buf, header, table_name, rows, utf_err,
                   afsVars, tlVars, exVars, extVars>>

\* one iteration of iter_rows
UTFIterRow ==
    /\ utf_pc = "rows"
    /\ Len(rows) < header.number_of_rows
    /\ LET r == ReadRow(utf_buf, header, dynamic_keys, struct_format, constants,
                        Len(rows) + 1)
       IN  /\ r.err = ""
           /\ rows' = Append(rows, r.row)
    /\ UNCHANGED <<utf_desc, utf_buf, header, table_name, dynamic_keys,
                   struct_format, constants, utf_pc, utf_err, afsVars, tlVars, exVars, extVars>>

\* iter_rows is exhausted: UTFTable.__init__ returns
UTFReturn ==
    /\ utf_pc = "rows"
    /\ Len(rows) = header.number_of_rows
    /\ utf_pc' = "done"
    /\ UNCHANGED <<utf_desc, utf_buf, header, table_name, dynamic_keys,
                   struct_format, constants, rows, utf_err, afsVars, tlVars, exVars, extVars>>

\* the exception the next step of UTFTable.__init__ raises, "" when none
UTFStepError ==
    CASE utf_pc = "start" -> HeaderError(utf_buf)
      [] utf_pc = "schema" -> ReadSchema(utf_buf, header).err
      [] utf_pc = "rows" /\ Len(rows) < header.number_of_rows ->
            ReadRow(utf_buf, header, dynamic_keys, struct_format, constants,
                    Len(rows) + 1).err
      [] OTHER -> ""

\* UTFTable.__init__ raises: no table object is returned
UTFRaises ==
    /\ utf_pc \in {"start", "schema", "rows"}
    /\ UTFStepError # ""
    /\ utf_err' = UTFStepError
    /\ utf_pc' = "failed"
    /\ UNCHANGED <<utf_desc, utf_buf, header, table_name, dynamic_keys,
                   struct_format, constants, rows, afsVars, tlVars, exVars, extVars>>

NextUTF == UTFHeader \/ UTFReadSchema \/ UTFIterRow \/ UTFReturn \/ UTFRaises

SpecUTF == InitUTF /\ [][NextUTF]_vars

(***************************************************************************)
(* TrackList.__init__ on the tables of an ACB: the cue loop, the sequence *)
(* or the flat track loop, and the command interpreter.  One step is one  *)
(* iteration of the cue loop.                                              *)
(***************************************************************************)
MaxCues == 2                  \* most rows of a modelled Cue table

CMD_SET_WAVEFORM == 2000      \* 0x07d0

CMD_START_OFFSET == 2001      \* 0x07d1

NO_EVENT == 65535             \* 0xFFFF

\* the Waveform, Synth and Sequence tables of the modelled ACBs
WaveformTable ==
    << WavRow(0, WAVEFORM_ENCODE_TYPE_HCA, 5, 0, 0),
       WavRow(1, WAVEFORM_ENCODE_TYPE_HCA, 0, 6, 0),
       WavRow(0, WAVEFORM_ENCODE_TYPE_ADX, 7, 0, 0) >>

\* ReferenceItems unpacked: (a, wav_idx)
SynthTable ==
    << [a |-> 1, wav_idx |-> 0], [a |-> 1, wav_idx |-> 1],
       [a |-> 2, wav_idx |-> 0], [a |-> 1, wav_idx |-> 2] >>

\* TrackIndex holds NumTracks big-endian 16-bit track indexes
SequenceTable ==
    << [NumTracks |-> 1, TrackIndex |-> <<0, 0>>],
       [NumTracks |-> 2, TrackIndex |-> <<0, 0, 0, 1>>] >>

\* a command record: opcode, parameter length, parameters
SetWaveform(syn_idx) == <<7, 208, 4, 0, 2, 0, syn_idx>>

StartOffset == <<7, 209, 4, 0, 0, 0, 0>>

Terminator == <<0, 0, 0>>

CommandChoices ==
    { <<>>,
      SetWaveform(0),
      SetWaveform(0) \o SetWaveform(1),
      Terminator \o SetWaveform(0),
      StartOffset \o SetWaveform(1),
      SetWaveform(2),
      SetWaveform(3),
      SetWaveform(9),
      <<7, 208>> }

\* struct.unpack_from(fmt, buf, k) has the n bytes it needs
CanUnpack(buf, k, n) == k + n <= Len(buf)

\* the branch cmd == 0x07d0 on param_bytes: [err, tracks]
SetWaveformCommand(nm, ref, param_bytes, ts) ==
    IF ~CanUnpack(param_bytes, 0, 2) THEN [err |-> "struct.error", tracks |-> ts]
    ELSE IF U16(param_bytes, 0) # 2 THEN [err |-> "AssertionError", tracks |-> ts]
    ELSE IF ~CanUnpack(param_bytes, 2, 2) THEN [err |-> "struct.error", tracks |-> ts]
    ELSE LET syn_idx == U16(param_bytes, 2)
         IN  IF syn_idx >= Len(SynthTable) THEN [err |-> "IndexError", tracks |-> ts]
             ELSE LET syn == SynthTable[syn_idx + 1]
                  IN  IF syn.a # 1 THEN [err |-> "", tracks |-> ts]
                      ELSE IF syn.wav_idx >= Len(WaveformTable)
                      THEN [err |-> "IndexError", tracks |-> ts]
                      ELSE LET w == WaveformTable[syn.wav_idx + 1]
                           IN  IF w.EncodeType # WAVEFORM_ENCODE_TYPE_HCA
                               THEN [err |-> "AssertionError", tracks |-> ts]
                               ELSE [err |-> "",
                                     tracks |-> Append(ts, MakeTrack(ts, nm, ref, w))]

\* while (k < len(command)): the records of command from byte k on
RECURSIVE RunCommand(_, _, _, _, _)
RunCommand(nm, ref, command, k, ts) ==
    IF k >= Len(command) THEN [err |-> "", tracks |-> ts]
    ELSE IF ~CanUnpack(command, k, 3) THEN [err |-> "struct.error", tracks |-> ts]
    ELSE LET cmd == U16(command, k)
             cmd_len == U8(command, k + 2)
             param_bytes == SubSeq(command, k + 4, k + 3 + cmd_len)
         IN  IF ~CanUnpack(command, k + 3, cmd_len)
             THEN [err |-> "struct.error", tracks |-> ts]
             ELSE IF cmd = 0 THEN [err |-> "", tracks |-> ts]
             ELSE IF cmd = CMD_SET_WAVEFORM
             THEN LET r == SetWaveformCommand(nm, ref, param_bytes, ts)
                  IN  IF r.err # "" THEN r
                      ELSE RunCommand(nm, ref, command, k + 3 + cmd_len, r.tracks)
             ELSE IF cmd = CMD_START_OFFSET /\ ~CanUnpack(param_bytes, 0, 4)
             THEN [err |-> "struct.error", tracks |-> ts]
             ELSE RunCommand(nm, ref, command, k + 3 + cmd_len, ts)

\* track_event = tevs.rows[track["EventIndex"]]; the Command is interpreted
RunTrack(in, nm, ref, index, ts) ==
    IF index >= Len(in.tras) THEN [err |-> "IndexError", tracks |-> ts]
    ELSE IF in.tras[index + 1] >= Len(in.tevs) THEN [err |-> "IndexError", tracks |-> ts]
    ELSE RunCommand(nm, ref, in.tevs[in.tras[index + 1] + 1], 0, ts)

\* for i in range(seq["NumTracks"]), from i on
RECURSIVE SequenceTracks(_, _, _, _, _, _)
SequenceTracks(in, nm, ref, seq, i, ts) ==
    IF i >= seq.NumTracks THEN [err |-> "", tracks |-> ts]
    ELSE IF ~CanUnpack(seq.TrackIndex, i * 2, 2) THEN [err |-> "struct.error", tracks |-> ts]
    ELSE LET r == RunTrack(in, nm, ref, U16(seq.TrackIndex, i * 2), ts)
         IN  IF r.err # "" THEN r
             ELSE SequenceTracks(in, nm, ref, seq, i + 1, r.tracks)

\* for index in range(len(tras.rows)), from index on
RECURSIVE FlatTracks(_, _, _, _, _)
FlatTracks(in, nm, ref, index, ts) ==
    IF index >= Len(in.tras) THEN [err |-> "", tracks |-> ts]
    ELSE IF in.tras[index + 1] = NO_EVENT THEN FlatTracks(in, nm, ref, index + 1, ts)
    ELSE LET r == RunTrack(in, nm, ref, index, ts)
         IN  IF r.err # "" THEN r
             ELSE FlatTracks(in, nm, ref, index + 1, r.tracks)

\* a mutant of KnownReferenceType: every ReferenceType is accepted
AnyReferenceType(t) == TRUE

\* row["ReferenceType"] in {3, 8}
KnownReferenceType(t) == t \in {3, 8}

\* one iteration of for row in cues.rows: [err, tracks]
CueTracks(in, nm, row, ts) ==
    IF ~KnownReferenceType(row.ReferenceType)
    THEN [err |-> "RuntimeError", tracks |-> ts]
    ELSE IF ~in.flat
    THEN IF row.ReferenceIndex >= Len(SequenceTable)
         THEN [err |-> "IndexError", tracks |-> ts]
         ELSE SequenceTracks(in, nm, row.ReferenceIndex,
                             SequenceTable[row.ReferenceIndex + 1], 0, ts)
    ELSE FlatTracks(in, nm, row.ReferenceIndex, 0, ts)

CueRow(type, ref) == [ReferenceType |-> type, ReferenceIndex |-> ref]

CueRows == { CueRow(3, 0), CueRow(8, 1), CueRow(1, 0), CueRow(3, 1) }

\* the EventIndex column of the Track table
TrackTables == { <<>>, <<0>>, <<0, 1>>, <<NO_EVENT, 1>>, <<1, NO_EVENT>>, <<5>> }

AcbTables ==
    { [flat |-> f, cues |-> c, tras |-> t, tevs |-> <<e, SetWaveform(1)>>] :
        f \in BOOLEAN,
        c \in UNION { [1..n -> CueRows] : n \in 0..MaxCues },
        t \in TrackTables,
        e \in CommandChoices }

InitResolve ==
    /\ acb \in AcbTables
    /\ cue_i = 1
    /\ name_map = (0 :> Bgm)
    /\ tracks = <<>>
    /\ tl_pc = "resolving"
    /\ tl_err = ""
    /\ AFSIdle /\ EXIdle /\ UTFIdle /\ LateIdle
    /\ USMIdle /\ SegIdle /\ MocIdle /\ MaskIdle /\ RdIdle

\* the variables TrackList.__init__ does not touch
resFrame == <<afsVars, exVars, utfVars, usmVars, segVars, mocVars, maskVars, rdVars,
             lateVars>>

\* lines 366-473: one iteration of the cue loop that completes
ResolveCue ==
    /\ tl_pc = "resolving"
    /\ cue_i >= 1
    /\ cue_i <= Len(acb.cues)
    /\ LET r == CueTracks(acb, name_map, acb.cues[cue_i], tracks)
       IN  /\ r.err = ""
           /\ tracks' = r.tracks
    /\ cue_i' = cue_i + 1
    /\ UNCHANGED <<acb, name_map, tl_pc, tl_err, resFrame>>

\* lines 366-473: one iteration of the cue loop that raises
ResolveCueFails ==
    /\ tl_pc = "resolving"
    /\ cue_i >= 1
    /\ cue_i <= Len(acb.cues)
    /\ LET r == CueTracks(acb, name_map, acb.cues[cue_i], tracks)
       IN  /\ r.err # ""
           /\ tracks' = r.tracks
           /\ tl_err' = r.err
    /\ tl_pc' = "failed"
    /\ UNCHANGED <<acb, cue_i, name_map, resFrame>>

\* the cue loop is exhausted: TrackList.__init__ returns
ResolveReturn ==
    /\ tl_pc = "resolving"
    /\ cue_i > Len(acb.cues)
    /\ tl_pc' = "done"
    /\ UNCHANGED <<acb, cue_i, name_map, tracks, tl_err, resFrame>>

NextResolve == ResolveCue \/ ResolveCueFails \/ ResolveReturn

SpecResolve == InitResolve /\ [][NextResolve]_vars

(***************************************************************************)
(* USM demuxer (extract_usm).  A container is a sequence of blocks; a     *)
(* block has a 4-byte signature and, 0x20 bytes in, a payload that is a   *)
(* @UTF table, a #HEADER END / #METADATA END / #CONTENTS END marker, or   *)
(* chunk data.  block_size leads from one block to the next.              *)
(***************************************************************************)
Block(sig, kind, data_type, id) ==
    [sig |-> sig, kind |-> kind, data_type |-> data_type, id |-> id]

\* the payload starts with "@UTF" (with or without a filename field)
IsUtf(b) == b.kind \in {"utf", "utf_nofile"}

\* get_utf_table(usm_file) on the payload of block b: assert ... == b"@UTF"
GetUtfTableError(b) == IF IsUtf(b) THEN "" ELSE "AssertionError"

\* readStringLength(4) at the end of the stream: unpack of too few bytes
AtEnd(blocks, pos) == pos > Len(blocks)

\* lines 229-234: the CRID block and its entry table
CridError(blocks, pos) ==
    IF AtEnd(blocks, pos) THEN "struct.error"
    ELSE IF blocks[pos].sig # "CRID" THEN "AssertionError"
    ELSE IF GetUtfTableError(blocks[pos]) # "" THEN GetUtfTableError(blocks[pos])
    ELSE IF blocks[pos].kind = "utf_nofile" THEN "KeyError"
    ELSE ""

\* a block with the given signature holding a @UTF table (lines 236-241, 268-273)
UtfBlockError(blocks, pos, sig) ==
    IF AtEnd(blocks, pos) THEN "struct.error"
    ELSE IF blocks[pos].sig # sig THEN "AssertionError"
    ELSE GetUtfTableError(blocks[pos])

\* a mutant of MarkerBlockError: the marker text is not compared
MarkerBlockErrorAnyPayload(blocks, pos, sig, marker) ==
    IF AtEnd(blocks, pos) THEN "struct.error"
    ELSE IF blocks[pos].sig # sig THEN "AssertionError"
    ELSE ""

\* a block with the given signature holding the given marker
\* (lines 254-258, 260-266, 275-278)
MarkerBlockError(blocks, pos, sig, marker) ==
    IF AtEnd(blocks, pos) THEN "struct.error"
    ELSE IF blocks[pos].sig # sig THEN "AssertionError"
    ELSE IF blocks[pos].kind # marker THEN "AssertionError"
    ELSE ""

\* lines 243-253: next_sig == b"@SFA" reads the audio meta table
SeesAudioMeta(blocks, pos) == ~AtEnd(blocks, pos) /\ blocks[pos].sig = "@SFA"

\* lines 243-258: the optional @SFA meta block, then the @SFV header end
HeaderEndError(blocks, pos) ==
    IF AtEnd(blocks, pos) THEN "struct.error"
    ELSE IF SeesAudioMeta(blocks, pos)
    THEN IF GetUtfTableError(blocks[pos]) # "" THEN GetUtfTableError(blocks[pos])
         ELSE MarkerBlockError(blocks, pos + 1, "@SFV", "header_end")
    ELSE MarkerBlockError(blocks, pos, "@SFV", "header_end")

\* content written for a chunk: its payload, masked when data_type == 0 and a
\* key was given
ChunkContent(b, key) == [id |-> b.id, masked |-> (b.data_type = 0 /\ key)]

\* one iteration of the data loop on block b: the exception it raises
ChunkError(blocks, pos, audio) ==
    IF AtEnd(blocks, pos) THEN "struct.error"
    ELSE IF blocks[pos].kind = "contents_end" THEN ""
    ELSE IF blocks[pos].sig = "@SFA" /\ ~audio THEN "IndexError"
    ELSE ""

\* output_files[k].write(content)
WriteChunk(fs, name, content) == [fs EXCEPT ![name] = Append(@, content)]

(***************************************************************************)
(* extract_usm on a container: the header blocks in order, the output     *)
(* files, then the data loop                                               *)
(***************************************************************************)
CridBlock == Block("CRID", "utf", 1, 0)

EndBlock == Block("@SFV", "contents_end", 2, 0)

\* the header of a container without and with an audio stream
HeaderNoAudio ==
    << CridBlock, Block("@SFV", "utf", 1, 0), Block("@SFV", "header_end", 2, 0),
       Block("@SFV", "utf", 3, 0), Block("@SFV", "metadata_end", 2, 0) >>

HeaderAudio ==
    << CridBlock, Block("@SFV", "utf", 1, 0), Block("@SFA", "utf", 1, 0),
       Block("@SFV", "header_end", 2, 0), Block("@SFA", "header_end", 2, 0),
       Block("@SFV", "utf", 3, 0), Block("@SFV", "metadata_end", 2, 0) >>

\* blocks put in place of, or between, the blocks of a header
HeaderBlocks ==
    { Block(sig, kind, 1, 0) :
        sig \in {"CRID", "@SFV", "@SFA"},
        kind \in {"utf", "utf_nofile", "header_end", "metadata_end"} }

Delete(h, i) == SubSeq(h, 1, i - 1) \o SubSeq(h, i + 1, Len(h))

Swap(h, i) == [k \in 1..Len(h) |-> IF k = i THEN h[i + 1]
                                   ELSE IF k = i + 1 THEN h[i] ELSE h[k]]

Replace(h, i, b) == [h EXCEPT ![i] = b]

Insert(h, i, b) == SubSeq(h, 1, i - 1) \o <<b>> \o SubSeq(h, i, Len(h))

\* a header and the headers one edit away from it
Headers(h) ==
    {h} \cup {Delete(h, i) : i \in 1..Len(h)}
        \cup {Swap(h, i) : i \in 1..(Len(h) - 1)}
        \cup {Replace(h, i, b) : i \in 1..Len(h), b \in HeaderBlocks}
        \cup {Insert(h, i, b) : i \in 1..(Len(h) + 1), b \in HeaderBlocks}

\* the data chunks after the header
DataTails ==
    { <<EndBlock>>,
      <<Block("@SFV", "chunk", 0, 1), EndBlock>>,
      <<Block("@SFV", "chunk", 0, 1), Block("@SFA", "chunk", 0, 2),
        Block("@SFV", "chunk", 1, 3), EndBlock>>,
      <<Block("@SFA", "chunk", 0, 1), Block("@SFV", "chunk", 0, 2)>>,
      <<>> }

UsmContainers ==
    { [blocks |-> h \o t, key |-> k] :
        h \in Headers(HeaderNoAudio) \cup Headers(HeaderAudio),
        t \in DataTails, k \in BOOLEAN }

InitUSM ==
    /\ usm_in \in UsmContainers
    /\ usm_pos = 1
    /\ hasAudio = FALSE
    /\ usm_files = <<>>
    /\ usm_pc = "crid"
    /\ usm_err = ""
    /\ AFSIdle /\ TLIdle /\ EXIdle /\ UTFIdle /\ LateIdle
    /\ ResIdle /\ SegIdle /\ MocIdle /\ MaskIdle /\ RdIdle

\* the variables extract_usm does not touch
usmFrame == <<afsVars, tlVars, exVars, utfVars, resVars, segVars, mocVars,
              maskVars, rdVars, lateVars>>

\* lines 229-234: the CRID block
USMCrid ==
    /\ usm_pc = "crid"
    /\ CridError(usm_in.blocks, usm_pos) = ""
    /\ usm_pos' = usm_pos + 1
    /\ usm_pc' = "sfv_meta"
    /\ UNCHANGED <<usm_in, hasAudio, usm_files, usm_err, usmFrame>>

\* lines 236-241: the @SFV meta table
USMVideoMeta ==
    /\ usm_pc = "sfv_meta"
    /\ UtfBlockError(usm_in.blocks, usm_pos, "@SFV") = ""
    /\ usm_pos' = usm_pos + 1
    /\ usm_pc' = "header_end"
    /\ UNCHANGED <<usm_in, hasAudio, usm_files, usm_err, usmFrame>>

\* lines 243-258: the optional @SFA meta table and the @SFV header end
USMHeaderEnd ==
    /\ usm_pc = "header_end"
    /\ HeaderEndError(usm_in.blocks, usm_pos) = ""
    /\ hasAudio' = SeesAudioMeta(usm_in.blocks, usm_pos)
    /\ usm_pos' = IF hasAudio' THEN usm_pos + 2 ELSE usm_pos + 1
    /\ usm_pc' = IF hasAudio' THEN "sfa_header_end" ELSE "sfv_data"
    /\ UNCHANGED <<usm_in, usm_files, usm_err, usmFrame>>

\* lines 260-266: the @SFA header end, read when hasAudio
USMAudioHeaderEnd ==
    /\ usm_pc = "sfa_header_end"
    /\ MarkerBlockError(usm_in.blocks, usm_pos, "@SFA", "header_end") = ""
    /\ usm_pos' = usm_pos + 1
    /\ usm_pc' = "sfv_data"
    /\ UNCHANGED <<usm_in, hasAudio, usm_files, usm_err, usmFrame>>

\* lines 268-273: the @SFV data table
USMVideoData ==
    /\ usm_pc = "sfv_data"
    /\ UtfBlockError(usm_in.blocks, usm_pos, "@SFV") = ""
    /\ usm_pos' = usm_pos + 1
    /\ usm_pc' = "metadata_end"
    /\ UNCHANGED <<usm_in, hasAudio, usm_files, usm_err, usmFrame>>

\* lines 275-303: the @SFV metadata end, then the output files are opened "wb"
USMMetadataEnd ==
    /\ usm_pc = "metadata_end"
    /\ MarkerBlockError(usm_in.blocks, usm_pos, "@SFV", "metadata_end") = ""
    /\ usm_pos' = usm_pos + 1
    /\ usm_files' = IF hasAudio THEN ("m2v" :> <<>>) @@ ("adx" :> <<>>)
                    ELSE ("m2v" :> <<>>)
    /\ usm_pc' = "data"
    /\ UNCHANGED <<usm_in, hasAudio, usm_err, usmFrame>>

\* lines 304-330: one iteration of the data loop that does not break
USMChunk ==
    /\ usm_pc = "data"
    /\ ChunkError(usm_in.blocks, usm_pos, hasAudio) = ""
    /\ usm_in.blocks[usm_pos].kind # "contents_end"
    /\ LET b == usm_in.blocks[usm_pos]
       IN  usm_files' =
             IF b.sig = "@SFV"
             THEN WriteChunk(usm_files, "m2v", ChunkContent(b, usm_in.key))
             ELSE IF b.sig = "@SFA"
             THEN WriteChunk(usm_files, "adx", ChunkContent(b, usm_in.key))
             ELSE usm_files
    /\ usm_pos' = usm_pos + 1
    /\ UNCHANGED <<usm_in, hasAudio, usm_pc, usm_err, usmFrame>>

\* lines 314-315, 332-336: #CONTENTS END breaks the loop; the files are closed
USMContentsEnd ==
    /\ usm_pc = "data"
    /\ ChunkError(usm_in.blocks, usm_pos, hasAudio) = ""
    /\ usm_in.blocks[usm_pos].kind = "contents_end"
    /\ usm_pc' = "done"
    /\ UNCHANGED <<usm_in, usm_pos, hasAudio, usm_files, usm_err, usmFrame>>

\* the exception the next step of extract_usm raises, "" when none
USMStepError ==
    CASE usm_pc = "crid" -> CridError(usm_in.blocks, usm_pos)
      [] usm_pc = "sfv_meta" -> UtfBlockError(usm_in.blocks, usm_pos, "@SFV")
      [] usm_pc = "header_end" -> HeaderEndError(usm_in.blocks, usm_pos)
      [] usm_pc = "sfa_header_end" ->
            MarkerBlockError(usm_in.blocks, usm_pos, "@SFA", "header_end")
      [] usm_pc = "sfv_data" -> UtfBlockError(usm_in.blocks, usm_pos, "@SFV")
      [] usm_pc = "metadata_end" ->
            MarkerBlockError(usm_in.blocks, usm_pos, "@SFV", "metadata_end")
      [] usm_pc = "data" -> ChunkError(usm_in.blocks, usm_pos, hasAudio)
      [] OTHER -> ""

\* extract_usm raises
USMRaises ==
    /\ usm_pc \notin {"idle", "done", "failed"}
    /\ USMStepError # ""
    /\ usm_err' = USMStepError
    /\ usm_pc' = "failed"
    /\ UNCHANGED <<usm_in, usm_pos, hasAudio, usm_files, usmFrame>>

NextUSM ==
    \/ USMCrid
    \/ USMVideoMeta
    \/ USMHeaderEnd
    \/ USMAudioHeaderEnd
    \/ USMVideoData
    \/ USMMetadataEnd
    \/ USMChunk
    \/ USMContentsEnd
    \/ USMRaises

SpecUSM == InitUSM /\ [][NextUSM]_vars

(***************************************************************************)
(* Segment classification of restore_unity_object_to_motion3.  Times are  *)
(* counted in units of 1/300000 s and values in units of 1/10000, so that *)
(* a third of a gap and a rounding to three decimals are integers; a      *)
(* slope is a number of value units per time unit.                        *)
(***************************************************************************)
MaxSamples == 3               \* most samples of a modelled curve

Centisecond == 3000           \* 0.01 (s)

Tolerance == 30               \* 0.0001 (s)

Inf == 1000000                \* float("inf")

Abs(n) == IF n < 0 THEN -n ELSE n

\* format_float(num): a float of at most three decimals; `milli` is 0.001 in
\* the unit of num
FormatFloat(num, milli) ==
    LET r == num % milli
    IN  IF 2 * r >= milli THEN num - r + milli ELSE num - r

FormatTime(t) == FormatFloat(t, 300)

FormatValue(v) == FormatFloat(v, 10)

\* "Segments": [0, format_float(track["Curve"][0]["value"])]
FirstSegments(c) == <<0, FormatValue(c[1].value)>>

\* the j + 1 < len(...) and abs(curve.time - pre_curve.time - 0.01) < 0.0001
\* test, then next_curve["value"] == curve["value"]
IsInverseStepped(c, j) ==
    /\ j + 1 <= Len(c)
    /\ Abs(c[j].time - c[j - 1].time - Centisecond) < Tolerance
    /\ c[j + 1].value = c[j].value

\* the numbers one iteration of the sample loop appends to Segments, for the
\* sample at index j (1-based, j >= 2)
SegmentOf(c, j) ==
    LET curve == c[j]
        pre_curve == c[j - 1]
        tangent_len == (curve.time - pre_curve.time) \div 3
    IN  IF IsInverseStepped(c, j)
        THEN <<3, FormatTime(c[j + 1].time), FormatValue(c[j + 1].value)>>
        ELSE IF curve.inSlope = Inf
        THEN <<2, FormatTime(curve.time), FormatValue(curve.value)>>
        ELSE IF pre_curve.outSlope = 0 /\ Abs(curve.inSlope) < 1
        THEN <<0, FormatTime(curve.time), FormatValue(curve.value)>>
        ELSE <<1, FormatTime(pre_curve.time + tangent_len),
                  FormatValue(pre_curve.outSlope * tangent_len + pre_curve.value),
                  FormatTime(curve.time - tangent_len),
                  FormatValue(curve.value - curve.inSlope * tangent_len),
                  FormatTime(curve.time),
                  FormatValue(curve.value)>>

\* total_point_count grows by 1, and by 2 more for a Bezier segment
PointsOf(seg) == IF seg[1] = 1 THEN 3 ELSE 1

\* the slopes of a sample: flat, stepped, or a curve
SlopeKinds == { [inSlope |-> 0, outSlope |-> 0],
                [inSlope |-> Inf, outSlope |-> 0],
                [inSlope |-> 5, outSlope |-> 5] }

Gaps == {Centisecond, Centisecond + Tolerance}

SampleValues == {0, 10004}

Sample(time, value, sl) ==
    [time |-> time, value |-> value, inSlope |-> sl.inSlope, outSlope |-> sl.outSlope]

\* the curves of n samples, the first at time 0
RECURSIVE CurvesOf(_)
CurvesOf(n) ==
    IF n = 1 THEN { <<Sample(0, v, sl)>> : v \in SampleValues, sl \in SlopeKinds }
    ELSE { Append(c, Sample(c[n - 1].time + g, v, sl)) :
              c \in CurvesOf(n - 1), g \in Gaps, v \in SampleValues, sl \in SlopeKinds }

Curves == UNION { CurvesOf(n) : n \in 1..MaxSamples }

InitSegments ==
    /\ curve_in \in Curves
    /\ segments = <<>>
    /\ seg_j = 0
    /\ total_segment_count = 0
    /\ total_point_count = 0
    /\ seg_pc = "start"
    /\ AFSIdle /\ TLIdle /\ EXIdle /\ UTFIdle /\ LateIdle
    /\ ResIdle /\ USMIdle /\ MocIdle /\ MaskIdle /\ RdIdle

\* the variables the segment loop does not touch
segFrame == <<afsVars, tlVars, exVars, utfVars, resVars, usmVars, mocVars,
              maskVars, rdVars, lateVars>>

\* lines 337-344: the curve's entry with its origin point
SegStart ==
    /\ seg_pc = "start"
    /\ segments' = FirstSegments(curve_in)
    /\ total_segment_count' = total_segment_count + 1
    /\ total_point_count' = total_point_count + 1
    /\ seg_j' = 2
    /\ seg_pc' = "loop"
    /\ UNCHANGED <<curve_in, segFrame>>

\* lines 346-390: one iteration of for j in range(1, len(track["Curve"]))
SegStep ==
    /\ seg_pc = "loop"
    /\ seg_j <= Len(curve_in)
    /\ segments' = segments \o SegmentOf(curve_in, seg_j)
    /\ total_point_count' = total_point_count + PointsOf(SegmentOf(curve_in, seg_j))
    /\ total_segment_count' = total_segment_count + 1
    /\ seg_j' = seg_j + 1
    /\ UNCHANGED <<curve_in, seg_pc, segFrame>>

\* the sample loop is exhausted
SegReturn ==
    /\ seg_pc = "loop"
    /\ seg_j > Len(curve_in)
    /\ seg_pc' = "done"
    /\ UNCHANGED <<curve_in, segments, seg_j, total_segment_count,
                   total_point_count, segFrame>>

NextSegments == SegStart \/ SegStep \/ SegReturn

SpecSegments == InitSegments /\ [][NextSegments]_vars

(***************************************************************************)
(* extract_params_ids_from_moc3.  A moc3 file is described by the four    *)
(* addresses its header holds and the names stored in the 64-byte slots   *)
(* from each base address on; a map key str(crc32(prefix + name)) is      *)
(* written as the pair it is the checksum of.                             *)
(***************************************************************************)
MaxSlots == 2                 \* most name slots of a modelled table

SlotSize == 64

PartBase == 512

ParamBase == 1024

\* str(crc32(prefix + param_id))
Crc32Key(prefix, param_id) == [prefix |-> prefix, name |-> param_id]

\* bs.base_stream.seek(cursor); bs.readStringToNull(): the name of the slot
\* that starts at cursor
ReadStringToNull(names, base, at) == names[(at - base) \div SlotSize + 1]

\* while end_addr - cursor > 64
MoreSlots(end_addr, at) == end_addr - at > SlotSize

\* param_id_map[crc] = param_id.decode() for the raw and the prefixed name
PutIds(m, prefix, param_id) ==
    DictPut(DictPut(m, Crc32Key("", param_id), param_id),
            Crc32Key(prefix, param_id), param_id)

SlotNames == {"ParamAngleX", "PartArm"}

NameTables == UNION { [1..n -> SlotNames] : n \in 0..MaxSlots }

\* bytes between the last slot and the end address
Paddings == {0, 32}

Moc3Files ==
    { [part_base |-> PartBase, part_end |-> PartBase + SlotSize * Len(pn) + pp,
       part_names |-> pn,
       param_base |-> ParamBase, param_end |-> ParamBase + SlotSize * Len(qn) + qp,
       param_names |-> qn] :
        pn \in NameTables, qn \in NameTables, pp \in Paddings, qp \in Paddings }

InitMoc3 ==
    /\ moc3 \in Moc3Files
    /\ cursor = 0
    /\ param_id_map = <<>>
    /\ moc_pc = "start"
    /\ AFSIdle /\ TLIdle /\ EXIdle /\ UTFIdle /\ LateIdle
    /\ ResIdle /\ USMIdle /\ SegIdle /\ MaskIdle /\ RdIdle

\* the variables extract_params_ids_from_moc3 does not touch
mocFrame == <<afsVars, tlVars, exVars, utfVars, resVars, usmVars, segVars,
              maskVars, rdVars, lateVars>>

\* lines 423-428: the part table's addresses are read at 0x4C
MocReadParts ==
    /\ moc_pc = "start"
    /\ cursor' = moc3.part_base
    /\ moc_pc' = "parts"
    /\ UNCHANGED <<moc3, param_id_map, mocFrame>>

\* lines 430-438: one iteration over the part table
MocPartSlot ==
    /\ moc_pc = "parts"
    /\ MoreSlots(moc3.part_end, cursor)
    /\ param_id_map' = PutIds(param_id_map, "Parts/",
                              ReadStringToNull(moc3.part_names, moc3.part_base, cursor))
    /\ cursor' = cursor + SlotSize
    /\ UNCHANGED <<moc3, moc_pc, mocFrame>>

\* lines 440-444: the parameter table's addresses are read at 0x108
MocReadParams ==
    /\ moc_pc = "parts"
    /\ ~MoreSlots(moc3.part_end, cursor)
    /\ cursor' = moc3.param_base
    /\ moc_pc' = "params"
    /\ UNCHANGED <<moc3, param_id_map, mocFrame>>

\* lines 446-454: one iteration over the parameter table
MocParamSlot ==
    /\ moc_pc = "params"
    /\ MoreSlots(moc3.param_end, cursor)
    /\ param_id_map' = PutIds(param_id_map, "Parameters/",
                              ReadStringToNull(moc3.param_names, moc3.param_base, cursor))
    /\ cursor' = cursor + SlotSize
    /\ UNCHANGED <<moc3, moc_pc, mocFrame>>

\* line 456: return param_id_map
MocReturn ==
    /\ moc_pc = "params"
    /\ ~MoreSlots(moc3.param_end, cursor)
    /\ moc_pc' = "done"
    /\ UNCHANGED <<moc3, cursor, param_id_map, mocFrame>>

NextMoc3 == MocReadParts \/ MocPartSlot \/ MocReadParams \/ MocParamSlot \/ MocReturn

SpecMoc3 == InitMoc3 /\ [][NextMoc3]_vars

(***************************************************************************)
(* Two decoder invocations, each with its own reader R over its own        *)
(* buffer (src/utils/acb.py, class R, lines 131-229).  Every call of the   *)
(* underlying file object (tell, seek, read) is one step, and the steps of *)
(* the two invocations interleave freely.                                  *)
(***************************************************************************)
MaxOps == 2

Invocations == {1, 2}

\* one file object for every reader
SharedCursor(i) == 1

\* R.__init__: reader i wraps its own file object, whose position is its own
CursorOf(i) == i

\* the reads a decoder makes: a typed read (latebinder passes no `at`), a plain
\* bytes(size), a bytes(size, at=...) and a seek(at)
ReadOps ==
    { [op |-> "uint8_t", size |-> 1, at |-> <<>>],
      [op |-> "bytes",   size |-> 2, at |-> <<>>],
      [op |-> "bytes",   size |-> 1, at |-> <<0>>],
      [op |-> "seek",    size |-> 0, at |-> <<2>>] }

ReadScripts == UNION {[1..n -> ReadOps] : n \in 1..MaxOps}

\* the buffers of the two invocations
ReadBuffers == <<(<<17, 18, 19>>), (<<33, 34, 35>>)>>

\* f.read(size) at position pos: at most size bytes, fewer at the end
FileRead(buf, pos, size) ==
    SubSeq(buf, pos + 1, IF pos + size <= Len(buf) THEN pos + size ELSE Len(buf))

InitReaders ==
    /\ rd_buf = ReadBuffers
    /\ rd_script \in [Invocations -> ReadScripts]
    /\ rd_pos = [c \in Invocations |-> 0]
    /\ rd_ip = [i \in Invocations |-> [op |-> 1, step |-> "call"]]
    /\ rd_back = [i \in Invocations |-> 0]
    /\ rd_out = [i \in Invocations |-> <<>>]
    /\ AFSIdle /\ TLIdle /\ EXIdle /\ UTFIdle /\ LateIdle
    /\ ResIdle /\ USMIdle /\ SegIdle /\ MocIdle /\ MaskIdle

rdFrame == <<afsVars, tlVars, exVars, utfVars, resVars, usmVars, segVars,
             mocVars, maskVars, lateVars>>

RdRunning(i) == rd_ip[i].step # "failed" /\ rd_ip[i].op <= Len(rd_script[i])

RdOp(i) == rd_script[i][rd_ip[i].op]

RdNextOp(i) == [rd_ip EXCEPT ![i] = [op |-> rd_ip[i].op + 1, step |-> "call"]]

\* lines 150 and 156: a typed read, a.unpack(f.read(b))[0]; a short read makes
\* unpack raise struct.error
RdTyped(i) ==
    /\ RdRunning(i) /\ rd_ip[i].step = "call"
    /\ RdOp(i).op = "uint8_t"
    /\ LET c == CursorOf(i)
           d == FileRead(rd_buf[i], rd_pos[c], RdOp(i).size)
       IN  /\ rd_pos' = [rd_pos EXCEPT ![c] = rd_pos[c] + Len(d)]
           /\ IF Len(d) = RdOp(i).size
              THEN /\ rd_out' = [rd_out EXCEPT ![i] = Append(rd_out[i], d[1])]
                   /\ rd_ip' = RdNextOp(i)
              ELSE /\ rd_out' = rd_out
                   /\ rd_ip' = [rd_ip EXCEPT ![i].step = "failed"]
    /\ UNCHANGED <<rd_buf, rd_script, rd_back, rdFrame>>

\* lines 178-179: seek(at)
RdSeek(i) ==
    /\ RdRunning(i) /\ rd_ip[i].step = "call"
    /\ RdOp(i).op = "seek"
    /\ rd_pos' = [rd_pos EXCEPT ![CursorOf(i)] = RdOp(i).at[1]]
    /\ rd_ip' = RdNextOp(i)
    /\ UNCHANGED <<rd_buf, rd_script, rd_back, rd_out, rdFrame>>

\* line 199: bytes(size) without at, self.f.read(size)
RdBytes(i) ==
    /\ RdRunning(i) /\ rd_ip[i].step = "call"
    /\ RdOp(i).op = "bytes" /\ RdOp(i).at = <<>>
    /\ LET c == CursorOf(i)
           d == FileRead(rd_buf[i], rd_pos[c], RdOp(i).size)
       IN  /\ rd_pos' = [rd_pos EXCEPT ![c] = rd_pos[c] + Len(d)]
           /\ rd_out' = [rd_out EXCEPT ![i] = Append(rd_out[i], d)]
    /\ rd_ip' = RdNextOp(i)
    /\ UNCHANGED <<rd_buf, rd_script, rd_back, rdFrame>>

\* lines 191-193: bytes(size, at): back = self.f.tell()
RdTell(i) ==
    /\ RdRunning(i) /\ rd_ip[i].step = "call"
    /\ RdOp(i).op = "bytes" /\ RdOp(i).at # <<>>
    /\ rd_back' = [rd_back EXCEPT ![i] = rd_pos[CursorOf(i)]]
    /\ rd_ip' = [rd_ip EXCEPT ![i].step = "seek"]
    /\ UNCHANGED <<rd_buf, rd_script, rd_pos, rd_out, rdFrame>>

\* line 194: self.f.seek(at)
RdSeekAt(i) ==
    /\ RdRunning(i) /\ rd_ip[i].step = "seek"
    /\ rd_pos' = [rd_pos EXCEPT ![CursorOf(i)] = RdOp(i).at[1]]
    /\ rd_ip' = [rd_ip EXCEPT ![i].step = "read"]
    /\ UNCHANGED <<rd_buf, rd_script, rd_back, rd_out, rdFrame>>

\* line 195: d = self.bytes(size)
RdReadAt(i) ==
    /\ RdRunning(i) /\ rd_ip[i].step = "read"
    /\ LET c == CursorOf(i)
           d == FileRead(rd_buf[i], rd_pos[c], RdOp(i).size)
       IN  /\ rd_pos' = [rd_pos EXCEPT ![c] = rd_pos[c] + Len(d)]
           /\ rd_out' = [rd_out EXCEPT ![i] = Append(rd_out[i], d)]
    /\ rd_ip' = [rd_ip EXCEPT ![i].step = "back"]
    /\ UNCHANGED <<rd_buf, rd_script, rd_back, rdFrame>>

\* lines 196-197: self.f.seek(back); return d
RdSeekBack(i) ==
    /\ RdRunning(i) /\ rd_ip[i].step = "back"
    /\ rd_pos' = [rd_pos EXCEPT ![CursorOf(i)] = rd_back[i]]
    /\ rd_ip' = RdNextOp(i)
    /\ UNCHANGED <<rd_buf, rd_script, rd_back, rd_out, rdFrame>>

NextReaders ==
    \E i \in Invocations :
        \/ RdTyped(i)
        \/ RdSeek(i)
        \/ RdBytes(i)
        \/ RdTell(i)
        \/ RdSeekAt(i)
        \/ RdReadAt(i)
        \/ RdSeekBack(i)

SpecReaders == InitReaders /\ [][NextReaders]_vars

(***************************************************************************)
(* The USM mask tables (src/utils/usm.py, get_mask, lines 141-189).  A key *)
(* is the sequence of its bytes, least significant first, so that          *)
(* (key >> 8*n) & 0xFF is the byte at index n + 1.                         *)
(***************************************************************************)
MaxCalls == 2

MaskSize == 32

\* the sums and differences without the & 0xFF
NoLowByte(x) == x

\* x & 0xFF, as written after every sum and difference
LowByte(x) == x % 256

RECURSIVE Xor(_, _)
\* a ^ b of two integers (a negative one is an endless run of one bits)
Xor(a, b) ==
    IF a = b /\ a \in {0, -1} THEN 0
    ELSE IF {a, b} = {0, -1} THEN -1
    ELSE (((a % 2) + (b % 2)) % 2) + 2 * Xor(a \div 2, b \div 2)

\* line 142: key1 = key & 0xFFFFFFFF, the bytes 0..3 of the key
Key1(key) == SubSeq(key, 1, 4)

\* line 143: key2 = (key >> 64) & 0xFFFFFFFF, the bytes 8..11 of the key
Key2(key) == SubSeq(key, 9, 12)

\* b"URUC"
URUC == <<85, 82, 85, 67>>

\* lines 145-177: the table t, entry by entry
MaskTable(key) ==
    LET key1 == Key1(key)
        key2 == Key2(key)
        t00 == LowByte(key1[1])
        t01 == LowByte(key1[2])
        t02 == LowByte(key1[3])
        t03 == LowByte(LowByte(key1[4]) - 52)
        t04 == LowByte((key2[1] % 16) + 249)
        t05 == Xor(LowByte(key2[2]), 19)
        t06 == LowByte(LowByte(key2[3]) + 97)
        t07 == Xor(t00, 255)
        t08 == LowByte(t02 + t01)
        t09 == LowByte(t01 - t07)
        t0A == Xor(t02, 255)
        t0B == Xor(t01, 255)
        t0C == LowByte(t0B + t09)
        t0D == LowByte(t08 - t03)
        t0E == Xor(t0D, 255)
        t0F == LowByte(t0A - t0B)
        t10 == LowByte(t08 - t0F)
        t11 == Xor(t10, t07)
        t12 == Xor(t0F, 255)
        t13 == Xor(t03, 16)
        t14 == LowByte(t04 - 50)
        t15 == LowByte(t05 + 237)
        t16 == Xor(t06, 243)
        t17 == LowByte(t13 - t0F)
        t18 == LowByte(t15 + t07)
        t19 == LowByte(33 - t13)
        t1A == Xor(t14, t17)
        t1B == LowByte(t16 + t16)
        t1C == LowByte(t17 + 68)
        t1D == LowByte(t03 + t04)
        t1E == LowByte(t05 - t16)
        t1F == LowByte(Xor(t1D, t13))
    IN  <<t00, t01, t02, t03, t04, t05, t06, t07,
          t08, t09, t0A, t0B, t0C, t0D, t0E, t0F,
          t10, t11, t12, t13, t14, t15, t16, t17,
          t18, t19, t1A, t1B, t1C, t1D, t1E, t1F>>

\* lines 179-189: (vmask1, vmask2), amask from t (the index i of the code is
\* n - 1)
GetMask(key) ==
    LET t == MaskTable(key)
    IN  [vmask1 |-> [n \in 1..MaskSize |-> t[n]],
         vmask2 |-> [n \in 1..MaskSize |-> Xor(t[n], 255)],
         amask  |-> [n \in 1..MaskSize |->
                        IF (n - 1) % 2 = 1
                        THEN URUC[(((n - 1) \div 2) % 4) + 1]
                        ELSE Xor(t[n], 255)]]

\* the keys tried: bytes 0 and 3 of key1 and bytes 0 and 2 of key2 vary
MaskKeys ==
    { <<b0, 35, 69, b3, 0, 0, 0, 0, c0, 18, c2, 0>> :
        b0 \in {1, 200}, b3 \in {0, 255}, c0 \in {7, 31}, c2 \in {0, 160} }

InitMask ==
    /\ mask_calls = <<>>
    /\ AFSIdle /\ TLIdle /\ EXIdle /\ UTFIdle /\ LateIdle
    /\ ResIdle /\ USMIdle /\ SegIdle /\ MocIdle /\ RdIdle

maskFrame == <<afsVars, tlVars, exVars, utfVars, resVars, usmVars, segVars,
               mocVars, rdVars, lateVars>>

\* one call get_mask(key): everything it assigns is local, the tables are
\* built afresh and returned
MaskCall ==
    /\ Len(mask_calls) < MaxCalls
    /\ \E key \in MaskKeys :
          mask_calls' = Append(mask_calls, [key |-> key, masks |-> GetMask(key)])
    /\ UNCHANGED maskFrame

NextMask == MaskCall

SpecMask == InitMask /\ [][NextMask]_vars

(***************************************************************************)
(* The Command interpreter loop of TrackList.__init__, one iteration per   *)
(* step (src/utils/acb.py, lines 380-421 and, identically, 432-472)        *)
(***************************************************************************)
MaxRecords == 3               \* most records a modelled Command is built from

\* the records the modelled Command blobs are built from: a set-waveform that
\* appends a track, one whose synth is skipped (a != 1), a terminator, a
\* start-offset, an unknown opcode without parameters, and a cut-off record
CommandRecords ==
    { SetWaveform(0), SetWaveform(2), Terminator, StartOffset, <<0, 5, 0>>, <<7, 208>> }

RECURSIVE CommandsOf(_)
CommandsOf(n) ==
    IF n = 0 THEN {<<>>}
    ELSE CommandsOf(n - 1) \cup
         {c \o r : c \in CommandsOf(n - 1), r \in CommandRecords}

\* everything but the interpreter loop and the track list is at rest
IpOthersIdle ==
    AFSIdle /\ EXIdle /\ UTFIdle /\ ResIdle /\ USMIdle /\ SegIdle /\
    MocIdle /\ MaskIdle /\ RdIdle /\ DlIdle /\ GtIdle /\ PscIdle /\
    DcIdle /\ UpIdle

InitInterp ==
    /\ ip_command \in CommandsOf(MaxRecords)
    /\ ip_k = 0
    /\ ip_origin = <<>>
    /\ ip_pc = "loop"
    /\ name_map = (0 :> Bgm)
    /\ tracks = <<>>
    /\ tl_pc = "resolving"
    /\ tl_err = ""
    /\ IpOthersIdle

ipFrame == <<afsVars, exVars, utfVars, resVars, usmVars, segVars, mocVars,
             maskVars, rdVars, dlVars, gtVars, pscVars, dcVars, upVars>>

\* lines 383-386: cmd, cmd_len and param_bytes of the record at k
RecordCmd(command, k) == U16(command, k)

RecordLen(command, k) == U8(command, k + 2)

RecordParams(command, k) == SubSeq(command, k + 4, k + 3 + RecordLen(command, k))

\* the exception one iteration raises, "" when it completes
RecordError(nm, command, k, ts) ==
    IF ~CanUnpack(command, k, 3) THEN "struct.error"
    ELSE IF ~CanUnpack(command, k + 3, RecordLen(command, k)) THEN "struct.error"
    ELSE IF RecordCmd(command, k) = CMD_SET_WAVEFORM
    THEN SetWaveformCommand(nm, 0, RecordParams(command, k), ts).err
    ELSE IF /\ RecordCmd(command, k) = CMD_START_OFFSET
            /\ ~CanUnpack(RecordParams(command, k), 0, 4)
    THEN "struct.error"
    ELSE ""

\* k when the iteration raises: both k += have run unless an unpack_from of
\* lines 383-385 failed
RecordErrorAt(command, k) ==
    IF ~CanUnpack(command, k, 3) THEN k
    ELSE IF ~CanUnpack(command, k + 3, RecordLen(command, k)) THEN k + 3
    ELSE k + 3 + RecordLen(command, k)

\* lines 382-421: an iteration on a record whose opcode is not 0
IpRecord ==
    /\ ip_pc = "loop"
    /\ ip_k < Len(ip_command)
    /\ RecordError(name_map, ip_command, ip_k, tracks) = ""
    /\ RecordCmd(ip_command, ip_k) # 0
    /\ ip_k' = ip_k + 3 + RecordLen(ip_command, ip_k)
    /\ tracks' = IF RecordCmd(ip_command, ip_k) = CMD_SET_WAVEFORM
                 THEN SetWaveformCommand(name_map, 0, RecordParams(ip_command, ip_k),
                                         tracks).tracks
                 ELSE tracks
    /\ ip_origin' = IF Len(tracks') > Len(tracks)
                    THEN Append(ip_origin, ip_k) ELSE ip_origin
    /\ UNCHANGED <<ip_command, ip_pc, name_map, tl_pc, tl_err, ipFrame>>

\* a record with opcode 0 treated like any unknown opcode: no break
IpTerminatorContinues ==
    /\ ip_pc = "loop"
    /\ ip_k < Len(ip_command)
    /\ RecordError(name_map, ip_command, ip_k, tracks) = ""
    /\ RecordCmd(ip_command, ip_k) = 0
    /\ ip_k' = ip_k + 3 + RecordLen(ip_command, ip_k)
    /\ UNCHANGED <<ip_command, ip_origin, ip_pc, name_map, tracks, tl_pc, tl_err, ipFrame>>

\* lines 387-389: cmd == 0: k = len(command); break
IpTerminator ==
    /\ ip_pc = "loop"
    /\ ip_k < Len(ip_command)
    /\ RecordError(name_map, ip_command, ip_k, tracks) = ""
    /\ RecordCmd(ip_command, ip_k) = 0
    /\ ip_k' = Len(ip_command)
    /\ ip_pc' = "exited"
    /\ UNCHANGED <<ip_command, ip_origin, name_map, tracks, tl_pc, tl_err, ipFrame>>

\* an iteration that raises (struct.error, AssertionError, IndexError)
IpRaises ==
    /\ ip_pc = "loop"
    /\ ip_k < Len(ip_command)
    /\ RecordError(name_map, ip_command, ip_k, tracks) # ""
    /\ tl_err' = RecordError(name_map, ip_command, ip_k, tracks)
    /\ ip_k' = RecordErrorAt(ip_command, ip_k)
    /\ ip_pc' = "failed"
    /\ UNCHANGED <<ip_command, ip_origin, name_map, tracks, tl_pc, ipFrame>>

\* line 382: k < len(command) is false
IpExit ==
    /\ ip_pc = "loop"
    /\ ip_k >= Len(ip_command)
    /\ ip_pc' = "exited"
    /\ UNCHANGED <<ip_command, ip_k, ip_origin, name_map, tracks, tl_pc, tl_err, ipFrame>>

NextInterp == IpRecord \/ IpTerminator \/ IpRaises \/ IpExit

SpecInterp == InitInterp /\ [][NextInterp]_vars

\* the loop is straight-line code: an iteration that can run does run
SpecInterpLive == SpecInterp /\ WF_vars(NextInterp)

(***************************************************************************)
(* The data-chunk loop of extract_usm on the bytes of the stream           *)
(* (src/utils/usm.py, lines 304-330) with mask_video and mask_audio        *)
(* (lines 192-218).  A chunk is 0x20 bytes of header followed by its       *)
(* payload and its footer padding.                                         *)
(***************************************************************************)
MaxChunks == 2                \* most chunks of a modelled stream

SFV == <<64, 83, 70, 86>>     \* b"@SFV"

SFA == <<64, 83, 70, 65>>     \* b"@SFA"

CONTENTS_END == <<35, 67, 79, 78, 84, 69, 78, 84, 83, 32, 69, 78, 68>>

\* mask_video: base = 0x40, the first pass runs over range(0x100, size), the
\* second over range(0x100), both only when size >= 0x200
VideoBase == 64

VideoHead == 256

VideoMin == 512

\* mask_audio: base = 0x140
AudioBase == 320

\* lines 200-201, one iteration: st.c is _content, st.mask the running mask,
\* m2 is vmask[1]
MaskVideoTailStep(st, m2, i) ==
    LET x == Xor(st.c[VideoBase + i + 1], st.mask[(i % 32) + 1])
    IN  [c |-> [st.c EXCEPT ![VideoBase + i + 1] = x],
         mask |-> [st.mask EXCEPT ![(i % 32) + 1] = Xor(x, m2[(i % 32) + 1])]]

RECURSIVE MaskVideoTail(_, _, _, _)
\* line 199: for i in range(lo, hi), the range run in two halves (the test
\* on the first half has it evaluated before the second half is entered)
MaskVideoTail(st, m2, lo, hi) ==
    IF lo >= hi THEN st
    ELSE IF hi = lo + 1 THEN MaskVideoTailStep(st, m2, lo)
    ELSE LET mid == (lo + hi) \div 2
             half == MaskVideoTail(st, m2, lo, mid)
         IN  IF half.c = <<>> THEN half ELSE MaskVideoTail(half, m2, mid, hi)

\* lines 205-206, one iteration
MaskVideoHeadStep(st, i) ==
    LET m == Xor(st.mask[(i % 32) + 1], st.c[VideoHead + VideoBase + i + 1])
    IN  [c |-> [st.c EXCEPT ![VideoBase + i + 1] = Xor(st.c[VideoBase + i + 1], m)],
         mask |-> [st.mask EXCEPT ![(i % 32) + 1] = m]]

RECURSIVE MaskVideoHead(_, _, _)
\* line 204: for i in range(lo, hi), the range run in two halves
MaskVideoHead(st, lo, hi) ==
    IF lo >= hi THEN st
    ELSE IF hi = lo + 1 THEN MaskVideoHeadStep(st, lo)
    ELSE LET mid == (lo + hi) \div 2
             half == MaskVideoHead(st, lo, mid)
         IN  IF half.c = <<>> THEN half ELSE MaskVideoHead(half, mid, hi)

\* mask_video(content, vmask), vmask = (vmask1, vmask2)
MaskVideo(content, masks) ==
    IF Len(content) - VideoBase >= VideoMin
    THEN LET tail == MaskVideoTail([c |-> content, mask |-> masks.vmask2],
                                   masks.vmask2, VideoHead, Len(content) - VideoBase)
         IN  MaskVideoHead([c |-> tail.c, mask |-> masks.vmask1], 0, VideoHead).c
    ELSE content

\* mask_audio(content, amask)
MaskAudio(content, amask) ==
    [n \in 1..Len(content) |->
        IF n - 1 >= AudioBase
        THEN Xor(content[n], amask[((n - 1 - AudioBase) % 32) + 1])
        ELSE content[n]]

\* a chunk as it is laid out: the signature, block_size, the header and footer
\* sizes, three bytes, the byte holding data_type, 16 bytes, then the body
ChunkBytes(ch) ==
    ch.sig \o Enc32(ch.block_size) \o Enc16(ch.hdr) \o Enc16(ch.ftr)
        \o <<0, 0, 0, ch.dtype>> \o [i \in 1..16 |-> 0] \o ch.body

\* a chunk whose sizes describe it: the header is 0x18 bytes after the 8 bytes
\* of signature and size, the body is the payload and ftr bytes of padding
DataChunk(sig, dtype, payload, ftr) ==
    [sig |-> sig, block_size |-> 24 + Len(payload) + ftr, hdr |-> 24, ftr |-> ftr,
     dtype |-> dtype, body |-> payload \o [i \in 1..ftr |-> 0]]

\* the payload of a chunk whose sizes describe it
PayloadOf(ch) == SubSeq(ch.body, 1, Len(ch.body) - ch.ftr)

SmallVideo == [i \in 1..16 |-> 16 + i]

SmallAudio == [i \in 1..16 |-> 48 + i]

\* payloads long enough for mask_video and mask_audio to change them
BigVideo == [i \in 1..576 |-> (i * 7 + 3) % 256]

BigAudio == [i \in 1..324 |-> (i * 5 + 1) % 256]

EndChunk == DataChunk(SFV, 2, CONTENTS_END \o <<0, 0, 0>>, 0)

\* a chunk whose block_size is 0
ZeroSizeChunk == [DataChunk(SFV, 0, SmallVideo, 0) EXCEPT !.block_size = 0]

ChunkChoices ==
    { DataChunk(SFV, 0, SmallVideo, 0),
      DataChunk(SFV, 1, BigVideo, 0),
      DataChunk(SFA, 0, SmallAudio, 8),
      DataChunk(SFV, 0, BigVideo, 0),
      DataChunk(SFA, 0, BigAudio, 0),
      DataChunk(<<64, 67, 85, 69>>, 0, SmallVideo, 0),
      EndChunk,
      ZeroSizeChunk }

\* the key given to extract_usm, <<>> when none was
DataKeys == { <<>>, <<1, 35, 69, 0, 0, 0, 0, 0, 7, 18, 160, 0>> }

\* the streams of up to MaxChunks chunks of a set, with or without a closing
\* sentinel
StreamsOf(choices) ==
    { [chunks |-> c \o tail, key |-> key, audio |-> a] :
        c \in UNION {[1..n -> choices] : n \in 0..MaxChunks},
        tail \in {<<>>, <<EndChunk>>},
        key \in DataKeys, a \in BOOLEAN }

DataStreams == StreamsOf(ChunkChoices)

\* the streams whose payloads are too short for the masks to change them
ShortStreams ==
    StreamsOf({ch \in ChunkChoices : Len(ch.body) < AudioBase}
                \cup {DataChunk(SFV, 1, SmallVideo, 0)})

\* everything but the data loop is at rest
DlOthersIdle ==
    AFSIdle /\ TLIdle /\ EXIdle /\ UTFIdle /\ ResIdle /\ USMIdle /\
    SegIdle /\ MocIdle /\ MaskIdle /\ RdIdle /\ IpIdle /\ GtIdle /\
    PscIdle /\ DcIdle /\ UpIdle

InitDataOn(streams) ==
    /\ dl_in \in streams
    /\ dl_stream = Flatten([i \in 1..Len(dl_in.chunks) |-> ChunkBytes(dl_in.chunks[i])])
    /\ dl_pos = 0
    /\ dl_files = IF dl_in.audio THEN <<(<<>>), (<<>>)>> ELSE <<(<<>>)>>
    /\ dl_pc = "loop"
    /\ dl_err = ""
    /\ DlOthersIdle

InitData == InitDataOn(DataStreams)

dlFrame == <<afsVars, tlVars, exVars, utfVars, resVars, usmVars, segVars,
             mocVars, maskVars, rdVars, ipVars, gtVars, pscVars, dcVars,
             upVars>>

\* masking whatever the data_type
IsMaskedAnyType(buf, p, key) == key # <<>>

\* the marker never recognised
NeverContentsEnd(buf, p) == FALSE

\* lines 305-312 read 16 bytes of header, line 314 reads 13 bytes at +0x20;
\* unpack of fewer bytes raises struct.error
ChunkHeaderError(buf, p) ==
    IF ~CanRead(buf, p, 16) THEN "struct.error"
    ELSE IF ~CanRead(buf, p + 32, 13) THEN "struct.error"
    ELSE ""

\* line 314: the 13 bytes at +0x20 are b"#CONTENTS END"
IsContentsEnd(buf, p) == SubSeq(buf, p + 33, p + 45) = CONTENTS_END

\* line 317: read_data_len = block_size - chunk_header_size - chunk_footer_size
ReadDataLen(buf, p) == U32(buf, p + 4) - U16(buf, p + 8) - U16(buf, p + 10)

\* lines 319, 325: readBytes(read_data_len) at +0x20; a negative length reads
\* to the end of the stream
ChunkPayload(buf, p) ==
    IF ReadDataLen(buf, p) < 0 THEN Bytes(buf, Len(buf), p + 32)
    ELSE Bytes(buf, ReadDataLen(buf, p), p + 32)

\* line 312: data_type = readChar() & 0b11
DataType(buf, p) == U8(buf, p + 15) % 4

\* lines 320, 326: data_type == 0 and vmask is not None
IsMasked(buf, p, key) == DataType(buf, p) = 0 /\ key # <<>>

\* the exception one iteration raises, "" when none: output_files has no
\* second element unless hasAudio
DataChunkError(buf, p, audio) ==
    IF ChunkHeaderError(buf, p) # "" THEN ChunkHeaderError(buf, p)
    ELSE IF IsContentsEnd(buf, p) THEN ""
    ELSE IF SubSeq(buf, p + 1, p + 4) = SFA /\ ~audio THEN "IndexError"
    ELSE ""

\* lines 305-330: one iteration that does not break
DlChunk ==
    /\ dl_pc = "loop"
    /\ DataChunkError(dl_stream, dl_pos, dl_in.audio) = ""
    /\ ~IsContentsEnd(dl_stream, dl_pos)
    /\ LET next_sig == SubSeq(dl_stream, dl_pos + 1, dl_pos + 4)
           content == ChunkPayload(dl_stream, dl_pos)
           masked == IsMasked(dl_stream, dl_pos, dl_in.key)
       IN  dl_files' =
             IF next_sig = SFV
             THEN [dl_files EXCEPT ![1] =
                      @ \o (IF masked THEN MaskVideo(content, GetMask(dl_in.key))
                            ELSE content)]
             ELSE IF next_sig = SFA
             THEN [dl_files EXCEPT ![2] =
                      @ \o (IF masked THEN MaskAudio(content, GetMask(dl_in.key).amask)
                            ELSE content)]
             ELSE dl_files
    /\ dl_pos' = dl_pos + 8 + U32(dl_stream, dl_pos + 4)
    /\ UNCHANGED <<dl_in, dl_stream, dl_pc, dl_err, dlFrame>>

\* lines 314-315, 332-336: the marker breaks the loop, the files are closed
DlContentsEnd ==
    /\ dl_pc = "loop"
    /\ DataChunkError(dl_stream, dl_pos, dl_in.audio) = ""
    /\ IsContentsEnd(dl_stream, dl_pos)
    /\ dl_pc' = "done"
    /\ UNCHANGED <<dl_in, dl_stream, dl_pos, dl_files, dl_err, dlFrame>>

\* an iteration raises: extract_usm ends with the exception
DlRaises ==
    /\ dl_pc = "loop"
    /\ DataChunkError(dl_stream, dl_pos, dl_in.audio) # ""
    /\ dl_err' = DataChunkError(dl_stream, dl_pos, dl_in.audio)
    /\ dl_pc' = "failed"
    /\ UNCHANGED <<dl_in, dl_stream, dl_pos, dl_files, dlFrame>>

NextData == DlChunk \/ DlContentsEnd \/ DlRaises

SpecData == InitData /\ [][NextData]_vars

\* the loop is straight-line code: an iteration that can run does run
SpecDataLive == InitDataOn(ShortStreams) /\ [][NextData]_vars /\ WF_vars(NextData)

(***************************************************************************)
(* get_utf_table(usm_file) of src/utils/usm.py on the buffers UTFTable is  *)
(* given, the stream at the start of the table                              *)
(***************************************************************************)
\* readStringToNull(offset=at): the bytes up to the first NUL at or after
\* `at`; the loop never ends when the stream ends before a NUL, and seek
\* refuses a negative offset
StringToNull(buf, at) ==
    IF at < 0 THEN [err |-> "ValueError", s |-> <<>>]
    ELSE IF String0(buf, at).err # "" THEN [err |-> "hang", s |-> <<>>]
    ELSE String0(buf, at)

\* lines 73-84: the exception raised up to the read of the table, "" when none
GtHeaderError(buf) ==
    IF ~CanRead(buf, 0, 4) THEN "struct.error"
    ELSE IF SubSeq(buf, 1, 4) # <<64, 85, 84, 70>> THEN "AssertionError"
    ELSE IF ~CanRead(buf, 4, 28) THEN "struct.error"
    ELSE ""

\* line 84: BytesIO(usm_file.readBytes(table_size - 24)), the stream at 32
GtTable(buf) ==
    IF ReadHeader(buf).table_size - 24 < 0 THEN Bytes(buf, Len(buf), 32)
    ELSE Bytes(buf, ReadHeader(buf).table_size - 24, 32)

\* line 104: constants[name] = field_val, name being the name of the table
GtConstantKey(tname, field_name) == tname

\* lines 92-113: the field loop from field k on, the cursor of utf_table at
\* pos; name_offset is the one read last
RECURSIVE GtSchemaFrom(_, _, _, _, _, _, _, _, _)
GtSchemaFrom(tbl, hdr, name, k, pos, dyn, fmt, consts, last_offset) ==
    LET out(e) == [err |-> e, dynamic_keys |-> dyn, format |-> fmt,
                   constants |-> consts, name_offset |-> last_offset]
    IN  IF k > hdr.number_of_fields THEN out("")
        ELSE IF ~CanRead(tbl, pos, 5) THEN out("struct.error")
        ELSE LET field_type == U8(tbl, pos)
                 name_offset == U32(tbl, pos + 1)
                 field_name == StringToNull(tbl, hdr.string_table_offset + name_offset - 24)
                 occurrence == (field_type \div 16) * 16
                 type_key == field_type % 16
                 w == TypeWidth(type_key)
             IN  IF field_name.err # "" THEN out(field_name.err)
                 ELSE IF w = 0 THEN out("KeyError")
                 ELSE IF occurrence \in {COLUMN_STORAGE_CONSTANT, COLUMN_STORAGE_CONSTANT2}
                 THEN IF ~CanRead(tbl, pos + 5, w) THEN out("struct.error")
                      ELSE GtSchemaFrom(tbl, hdr, name, k + 1, pos + 5 + w, dyn, fmt,
                               DictPut(consts, GtConstantKey(name, field_name.s),
                                       ConstantAt(tbl, type_key, pos + 5)),
                               name_offset)
                 ELSE GtSchemaFrom(tbl, hdr, name, k + 1, pos + 5, Append(dyn, field_name.s),
                                   Append(fmt, type_key), consts, name_offset)

\* lines 119-133: the values unpacked at pos, strings and blobs read; a blob
\* is read at data_offset + name_offset - 24, whatever offset the row holds
RECURSIVE GtResolveFrom(_, _, _, _, _, _, _)
GtResolveFrom(tbl, hdr, name_offset, fmt, k, pos, acc) ==
    IF k > Len(fmt) THEN [err |-> "", values |-> acc]
    ELSE LET t == fmt[k]
             ref == RefAt(tbl, t, pos)
             str == StringToNull(tbl, hdr.string_table_offset + ref[1] - 24)
             v == IF t = COLUMN_TYPE_DATA
                  THEN IF hdr.data_offset + name_offset - 24 < 0
                       THEN [err |-> "ValueError", val |-> <<>>]
                       ELSE [err |-> "",
                             val |-> Value("bytes", t,
                                        Bytes(tbl, ref[2], hdr.data_offset + name_offset - 24))]
                  ELSE IF t = COLUMN_TYPE_STRING
                  THEN [err |-> str.err, val |-> Value("str", t, str.s)]
                  ELSE [err |-> "",
                        val |-> Value("num", t, SubSeq(tbl, pos + 1, pos + TypeWidth(t)))]
         IN  IF v.err # "" THEN [err |-> v.err, values |-> acc]
             ELSE GtResolveFrom(tbl, hdr, name_offset, fmt, k + 1, pos + TypeWidth(t),
                                Append(acc, v.val))

\* lines 115-136: the rows from row n on
RECURSIVE GtRowsFrom(_, _, _, _, _)
GtRowsFrom(tbl, hdr, s, n, acc) ==
    IF n > hdr.number_of_rows THEN [err |-> "", rows |-> acc]
    ELSE LET pos == hdr.row_offset - 24 + (n - 1) * FormatSize(s.format)
             r == GtResolveFrom(tbl, hdr, s.name_offset, s.format, 1, pos, <<>>)
         IN  IF pos < 0 THEN [err |-> "ValueError", rows |-> <<>>]
             ELSE IF ~CanRead(tbl, pos, FormatSize(s.format)) /\ FormatSize(s.format) > 0
             THEN [err |-> "struct.error", rows |-> <<>>]
             ELSE IF r.err # "" THEN [err |-> r.err, rows |-> <<>>]
             ELSE GtRowsFrom(tbl, hdr, s, n + 1,
                     Append(acc, RowDict(n, s.dynamic_keys, r.values, s.constants)))

\* get_utf_table(usm_file): [err, rows]
GetUtfTable(buf) ==
    LET hdr == ReadHeader(buf)
        tbl == GtTable(buf)
        name == StringToNull(tbl, hdr.string_table_offset + hdr.table_name_offset - 24)
        s == GtSchemaFrom(tbl, hdr, name.s, 1, 0, <<>>, <<>>, <<>>, 0)
    IN  IF GtHeaderError(buf) # "" THEN [err |-> GtHeaderError(buf), rows |-> <<>>]
        ELSE IF name.err # "" THEN [err |-> name.err, rows |-> <<>>]
        ELSE IF s.err # "" THEN [err |-> s.err, rows |-> <<>>]
        ELSE GtRowsFrom(tbl, hdr, s, 1, <<>>)

\* UTFTable(file).rows on the same buffer: [err, rows]
RECURSIVE UTFRowsFrom(_, _, _, _, _)
UTFRowsFrom(buf, hdr, s, n, acc) ==
    IF n > hdr.number_of_rows THEN [err |-> "", rows |-> acc]
    ELSE LET r == ReadRow(buf, hdr, s.dynamic_keys, s.format, s.constants, n)
         IN  IF r.err # "" THEN [err |-> r.err, rows |-> <<>>]
             ELSE UTFRowsFrom(buf, hdr, s, n + 1, Append(acc, r.row))

UTFTableRows(buf) ==
    IF HeaderError(buf) # "" THEN [err |-> HeaderError(buf), rows |-> <<>>]
    ELSE IF ReadSchema(buf, ReadHeader(buf)).err # ""
    THEN [err |-> ReadSchema(buf, ReadHeader(buf)).err, rows |-> <<>>]
    ELSE UTFRowsFrom(buf, ReadHeader(buf), ReadSchema(buf, ReadHeader(buf)), 1, <<>>)

GtOthersIdle ==
    AFSIdle /\ TLIdle /\ EXIdle /\ UTFIdle /\ ResIdle /\ USMIdle /\
    SegIdle /\ MocIdle /\ MaskIdle /\ RdIdle /\ IpIdle /\ DlIdle /\
    PscIdle /\ DcIdle /\ UpIdle

InitGetUtf ==
    /\ gt_buf \in {Encode(d) : d \in UTFDescs}
    /\ gt_rows = <<>>
    /\ gt_ref = [err |-> "", rows |-> <<>>]
    /\ gt_pc = "start"
    /\ gt_err = ""
    /\ GtOthersIdle

gtFrame == <<afsVars, tlVars, exVars, utfVars, resVars, usmVars, segVars,
             mocVars, maskVars, rdVars, ipVars, dlVars, pscVars, dcVars,
             upVars>>

\* get_utf_table returns its rows; UTFTable is given the same buffer
GtReturn ==
    /\ gt_pc = "start"
    /\ GetUtfTable(gt_buf).err = ""
    /\ gt_rows' = GetUtfTable(gt_buf).rows
    /\ gt_ref' = UTFTableRows(gt_buf)
    /\ gt_pc' = "done"
    /\ UNCHANGED <<gt_buf, gt_err, gtFrame>>

\* get_utf_table raises, or never returns ("hang")
GtRaises ==
    /\ gt_pc = "start"
    /\ GetUtfTable(gt_buf).err # ""
    /\ gt_err' = GetUtfTable(gt_buf).err
    /\ gt_ref' = UTFTableRows(gt_buf)
    /\ gt_pc' = "failed"
    /\ UNCHANGED <<gt_buf, gt_rows, gtFrame>>

NextGetUtf == GtReturn \/ GtRaises

SpecGetUtf == InitGetUtf /\ [][NextGetUtf]_vars

(***************************************************************************)
(* process_streamed_clip of src/utils/live2d.py on the records the stream  *)
(* holds: the read loop, then one step per frame of the slope loop.  Times *)
(* are counted in units of 0.0001, the least dx of calc_next_in_slope, and *)
(* a slope is the fraction n / d or infinity.                               *)
(***************************************************************************)
MaxClipFrames == 4

\* dx = max(dx, 0.0001)
MinDx == 1

Slope(n, d) == [inf |-> FALSE, n |-> n, d |-> d]

\* self.inSlope = 0.0
ZeroSlope == Slope(0, 1)

InfSlope == [inf |-> TRUE, n |-> 0, d |-> 1]

\* StreamedCurveKey(bs): index, coeff, value read; outSlope = coeff[2]
CurveKey(index, coeff, value) ==
    [index |-> index, coeff |-> coeff, outSlope |-> coeff[3], value |-> value,
     inSlope |-> ZeroSlope]

ClipKeyLists ==
    { <<>>,
      <<CurveKey(0, <<1, 2, 3>>, 5)>>,
      <<CurveKey(0, <<0, 0, 0>>, 1)>>,
      <<CurveKey(1, <<1, 1, 2>>, 2)>> }

\* the records of a stream: record i is at time -1, i or 2
StreamedClips ==
    UNION { { c \in [1..n -> [time : {-1, 2} \cup (1..n), keyList : ClipKeyLists]] :
                \A i \in 1..n : c[i].time \in {-1, 2, i} } : n \in 0..MaxClipFrames }

\* calc_next_in_slope(dx, rhs) of key `self`
CalcNextInSlope(self, dx0, rhs) ==
    IF self.coeff[1] = 0 /\ self.coeff[2] = 0 /\ self.coeff[3] = 0 THEN InfSlope
    ELSE LET dx == Max(dx0, MinDx)
             dy == rhs.value - self.value
             d1 == self.outSlope * dx
             d2 == dy + dy + dy - d1 - d1 - self.coeff[2] * (dx * dx)
         IN  Slope(d2, dx)

\* lines 101-112: the frames read, those with time < 0 left out
RECURSIVE ReadFrames(_)
ReadFrames(clip) ==
    IF clip = <<>> THEN <<>>
    ELSE IF Head(clip).time < 0 THEN ReadFrames(Tail(clip))
    ELSE <<Head(clip)>> \o ReadFrames(Tail(clip))

\* next((x for x in pre_frame["keyList"] if x.index == index), None): the
\* position of the key, 0 for None
FirstKeyWith(frame, index) ==
    IF \E i \in 1..Len(frame.keyList) : frame.keyList[i].index = index
    THEN CHOOSE i \in 1..Len(frame.keyList) :
            /\ frame.keyList[i].index = index
            /\ \A j \in 1..(i - 1) : frame.keyList[j].index # index
    ELSE 0

\* range(k - 1, 0, -1) stops before 0
ScanStop == 1

\* lines 119-129: the frames (0-based) range(k - 1, 0, -1) visits that hold a
\* key of the index; the scan breaks at the first, the greatest
ScanHits(ret, k, index) ==
    { fI \in ScanStop..(k - 1) : FirstKeyWith(ret[fI + 1], index) # 0 }

\* the inSlope of key ck of frame k (0-based) after the scan
InSlopeAfterScan(ret, k, ck) ==
    IF ScanHits(ret, k, ck.index) = {} THEN ck.inSlope
    ELSE LET fI == CHOOSE f \in ScanHits(ret, k, ck.index) :
                      \A g \in ScanHits(ret, k, ck.index) : g <= f
             pre_frame == ret[fI + 1]
         IN  CalcNextInSlope(pre_frame.keyList[FirstKeyWith(pre_frame, ck.index)],
                             ret[k + 1].time - pre_frame.time, ck)

PscOthersIdle ==
    AFSIdle /\ TLIdle /\ EXIdle /\ UTFIdle /\ ResIdle /\ USMIdle /\
    SegIdle /\ MocIdle /\ MaskIdle /\ RdIdle /\ IpIdle /\ DlIdle /\
    GtIdle /\ DcIdle /\ UpIdle

InitStreamedClip ==
    /\ psc_in \in StreamedClips
    /\ psc_ret = <<>>
    /\ psc_k = 0
    /\ psc_pc = "read"
    /\ PscOthersIdle

pscFrame == <<afsVars, tlVars, exVars, utfVars, resVars, usmVars, segVars,
              mocVars, maskVars, rdVars, ipVars, dlVars, gtVars, dcVars,
              upVars>>

\* lines 97-112: the read loop
PscRead ==
    /\ psc_pc = "read"
    /\ psc_ret' = ReadFrames(psc_in)
    /\ psc_k' = 0
    /\ psc_pc' = "slopes"
    /\ UNCHANGED <<psc_in, pscFrame>>

\* lines 114-116: a frame the slope loop passes over
PscSkipFrame ==
    /\ psc_pc = "slopes"
    /\ psc_k < Len(psc_ret)
    /\ psc_k < 2 \/ psc_k = Len(psc_ret) - 1
    /\ psc_k' = psc_k + 1
    /\ UNCHANGED <<psc_in, psc_ret, psc_pc, pscFrame>>

\* lines 118-129: the keys of frame k get their inSlope
PscFrameSlopes ==
    /\ psc_pc = "slopes"
    /\ psc_k < Len(psc_ret)
    /\ ~(psc_k < 2 \/ psc_k = Len(psc_ret) - 1)
    /\ LET keys == psc_ret[psc_k + 1].keyList
       IN  psc_ret' = [psc_ret EXCEPT ![psc_k + 1].keyList =
                          [i \in 1..Len(keys) |->
                              [keys[i] EXCEPT !.inSlope =
                                  InSlopeAfterScan(psc_ret, psc_k, keys[i])]]]
    /\ psc_k' = psc_k + 1
    /\ UNCHANGED <<psc_in, psc_pc, pscFrame>>

\* line 131: return ret
PscReturn ==
    /\ psc_pc = "slopes"
    /\ psc_k = Len(psc_ret)
    /\ psc_pc' = "done"
    /\ UNCHANGED <<psc_in, psc_ret, psc_k, pscFrame>>

NextStreamedClip == PscRead \/ PscSkipFrame \/ PscFrameSlopes \/ PscReturn

SpecStreamedClip == InitStreamedClip /\ [][NextStreamedClip]_vars

(***************************************************************************)
(* The decode loops of restore_unity_object_to_motion3 (streamed keys,     *)
(* dense samples, constant samples), one step per call of                  *)
(* read_streamed_data or read_curve_data.  A time is the fraction n / d.   *)
(***************************************************************************)
MaxBindings == 2

MaxDenseFrames == 2

MaxDenseCurves == 2

\* lines 74-88: the curves a binding stands for
BindingWidth(b) ==
    IF b.typeID = "Transform"
    THEN IF b.attribute \in {1, 3, 4} THEN 3
         ELSE IF b.attribute = 2 THEN 4
         ELSE 1
    ELSE 1

\* a mutant of Exceeds: the running total has reached the index
ReachesIndex(curves, index) == curves >= index

\* line 89: curves > index
Exceeds(curves, index) == curves > index

\* find_binding: the position (1-based) of the binding returned, 0 for None
RECURSIVE FindBindingFrom(_, _, _, _)
FindBindingFrom(generic_bindings, j, curves, index) ==
    IF j > Len(generic_bindings) THEN 0
    ELSE IF Exceeds(curves + BindingWidth(generic_bindings[j]), index) THEN j
    ELSE FindBindingFrom(generic_bindings, j + 1,
                         curves + BindingWidth(generic_bindings[j]), index)

FindBinding(generic_bindings, index) == FindBindingFrom(generic_bindings, 1, 0, index)

\* live2d_target_map: (target, bone_name), bone_name "" for None
TargetMapKeys ==
    {"CubismParameter", "CubismPart", "CubismRenderController",
     "CubismEyeBlinkController", "CubismMouthController"}

TargetMap(m_Name) ==
    CASE m_Name = "CubismParameter" -> <<"Parameter", "">>
      [] m_Name = "CubismPart" -> <<"PartOpacity", "">>
      [] m_Name = "CubismRenderController" -> <<"Model", "Opacity">>
      [] m_Name = "CubismEyeBlinkController" -> <<"Model", "EyeBlink">>
      [] OTHER -> <<"Model", "LipSync">>

\* str(binding_constant.path)
StrOf(path) == CASE path = 1 -> "1" [] path = 2 -> "2" [] path = 3 -> "3" [] OTHER -> "4"

\* lines 147-149, 194-196: the bone name of a binding
BoneName(b) ==
    IF TargetMap(b.script)[2] = "" THEN StrOf(b.path) ELSE TargetMap(b.script)[2]

Binding(typeID, attribute, script, path) ==
    [typeID |-> typeID, attribute |-> attribute, script |-> script, path |-> path]

BindingChoices ==
    { Binding("MonoBehaviour", 0, "CubismParameter", 1),
      Binding("MonoBehaviour", 0, "CubismRenderController", 3),
      Binding("MonoBehaviour", 0, "CubismOther", 4),
      Binding("Transform", 1, "CubismParameter", 3),
      Binding("Transform", 2, "CubismPart", 4),
      Binding("Transform", 0, "CubismParameter", 2) }

Time(n, d) == [n |-> n, d |-> d]

\* a point of a track's Curve
Point(time, value, inSlope, outSlope) ==
    [time |-> time, value |-> value, inSlope |-> inSlope, outSlope |-> outSlope]

\* the streamed frames: none, or one frame at time 1 with one key
StreamedFrameChoices ==
    {<<>>} \cup { <<[time |-> 1, keyList |-> <<[index |-> i, value |-> 7, inSlope |-> 0,
                                                outSlope |-> 3]>>]>> : i \in {0, 3} }

\* a dense clip holds frame_count * curve_count samples, frame by frame
DenseClips ==
    { [m_FrameCount |-> f, m_CurveCount |-> c, m_BeginTime |-> 0, m_SampleRate |-> r,
       m_SampleArray |-> [i \in 1..(f * c) |-> 100 + i]] :
        f \in 0..MaxDenseFrames, c \in 0..MaxDenseCurves, r \in {2} }

ClipInputs ==
    [bindings : UNION {[1..n -> BindingChoices] : n \in 0..MaxBindings},
     streamed : StreamedFrameChoices,
     stream_count : {0, 1},
     dense : DenseClips,
     constant : {<<>>, <<50>>},
     m_StopTime : {4}]

\* lines 277-280: the calls of read_streamed_data, in order
StreamedCalls(in) ==
    Flatten([f \in 1..Len(in.streamed) |->
        [k \in 1..Len(in.streamed[f].keyList) |->
            [kind |-> "streamed", idx |-> in.streamed[f].keyList[k].index,
             time |-> Time(in.streamed[f].time, 1),
             sample_list |-> <<in.streamed[f].keyList[k].value>>, curve_idx |-> 0,
             inSlope |-> in.streamed[f].keyList[k].inSlope,
             outSlope |-> in.streamed[f].keyList[k].outSlope]]])

\* a call of read_curve_data
CurveCall(idx, time, sample_list, curve_idx) ==
    [kind |-> "curve", idx |-> idx, time |-> time, sample_list |-> sample_list,
     curve_idx |-> curve_idx, inSlope |-> 0, outSlope |-> 0]

\* lines 288-299: time = m_BeginTime + frame_idx / m_SampleRate, the sample
\* list is the whole m_SampleArray, the position in it is curve_idx
DenseCalls(in) ==
    Flatten([f \in 1..in.dense.m_FrameCount |->
        [c \in 1..in.dense.m_CurveCount |->
            CurveCall(in.stream_count + (c - 1),
                      Time(in.dense.m_BeginTime * in.dense.m_SampleRate + (f - 1),
                           in.dense.m_SampleRate),
                      in.dense.m_SampleArray, c - 1)]])

\* lines 306-313: the constant samples, at time 0 and at m_StopTime
ConstantCalls(in) ==
    Flatten([t \in 1..2 |->
        [c \in 1..Len(in.constant) |->
            CurveCall(in.stream_count + in.dense.m_CurveCount + (c - 1),
                      Time(IF t = 1 THEN 0 ELSE in.m_StopTime, 1),
                      in.constant, c - 1)]])

DecodeCalls(in) == StreamedCalls(in) \o DenseCalls(in) \o ConstantCalls(in)

\* the exception a call raises, "" when none
CallError(in, call) ==
    IF FindBinding(in.bindings, call.idx) = 0 THEN "RuntimeError"
    ELSE IF in.bindings[FindBinding(in.bindings, call.idx)].script \notin TargetMapKeys
    THEN "KeyError"
    ELSE IF call.curve_idx >= Len(call.sample_list) THEN "IndexError"
    ELSE ""

\* lines 150-177, 197-224: the point is appended to the track of the bone
\* name, a new track when there is none
AddPoint(track_list, b, point) ==
    IF \E i \in 1..Len(track_list) : track_list[i].Name = BoneName(b)
    THEN LET i == CHOOSE x \in 1..Len(track_list) :
                     /\ track_list[x].Name = BoneName(b)
                     /\ \A y \in 1..(x - 1) : track_list[y].Name # BoneName(b)
         IN  [track_list EXCEPT ![i].Curve = Append(@, point)]
    ELSE Append(track_list, [Name |-> BoneName(b), Target |-> TargetMap(b.script)[1],
                             Curve |-> <<point>>])

DcOthersIdle ==
    AFSIdle /\ TLIdle /\ EXIdle /\ UTFIdle /\ ResIdle /\ USMIdle /\
    SegIdle /\ MocIdle /\ MaskIdle /\ RdIdle /\ IpIdle /\ DlIdle /\
    GtIdle /\ PscIdle /\ UpIdle

InitDecode ==
    /\ dc_in \in ClipInputs
    /\ dc_tracks = <<>>
    /\ dc_n = 0
    /\ dc_pc = "decode"
    /\ dc_err = ""
    /\ DcOthersIdle

dcFrame == <<afsVars, tlVars, exVars, utfVars, resVars, usmVars, segVars,
             mocVars, maskVars, rdVars, ipVars, dlVars, gtVars, pscVars,
             upVars>>

\* one call of read_streamed_data or read_curve_data that returns
DcCall ==
    /\ dc_pc = "decode"
    /\ dc_n < Len(DecodeCalls(dc_in))
    /\ LET call == DecodeCalls(dc_in)[dc_n + 1]
       IN  /\ CallError(dc_in, call) = ""
           /\ dc_tracks' = AddPoint(dc_tracks,
                               dc_in.bindings[FindBinding(dc_in.bindings, call.idx)],
                               Point(call.time, call.sample_list[call.curve_idx + 1],
                                     call.inSlope, call.outSlope))
    /\ dc_n' = dc_n + 1
    /\ UNCHANGED <<dc_in, dc_pc, dc_err, dcFrame>>

\* a call raises: restore_unity_object_to_motion3 ends with the exception
DcRaises ==
    /\ dc_pc = "decode"
    /\ dc_n < Len(DecodeCalls(dc_in))
    /\ CallError(dc_in, DecodeCalls(dc_in)[dc_n + 1]) # ""
    /\ dc_err' = CallError(dc_in, DecodeCalls(dc_in)[dc_n + 1])
    /\ dc_pc' = "failed"
    /\ UNCHANGED <<dc_in, dc_tracks, dc_n, dcFrame>>

\* the three loops are over
DcDecoded ==
    /\ dc_pc = "decode"
    /\ dc_n = Len(DecodeCalls(dc_in))
    /\ dc_pc' = "done"
    /\ UNCHANGED <<dc_in, dc_tracks, dc_n, dc_err, dcFrame>>

NextDecode == DcCall \/ DcRaises \/ DcDecoded

SpecDecode == InitDecode /\ [][NextDecode]_vars

(***************************************************************************)
(* main() of src/main.py over several runs of the program, with            *)
(* do_download and get_download_list of src/helpers.py.  A file of the     *)
(* cache is [exists, content]; a bundle name is the sequence of its        *)
(* characters; the bundles of a bundle info come in the order of the JSON. *)
(***************************************************************************)
MaxRuns == 3

LIVE2D_PREFIX == <<"l", "i", "v", "e", "2", "d", "/">>

\* str.startswith
StartsWith(s, prefix) == Len(s) >= Len(prefix) /\ SubSeq(s, 1, Len(prefix)) = prefix

BundleNames ==
    << LIVE2D_PREFIX \o <<"a">>,
       <<"m", "u", "s", "i", "c", "/", "a">>,
       LIVE2D_PREFIX \o <<"b">>,
       <<"l", "i", "v", "e", "2", "d">> >>

\* .get("hash") of a bundle the cache does not hold: None
NoHash == 0

BundleHashes == {1, 2}

Bundle(name, hash) == [bundleName |-> name, hash |-> hash]

\* the bundle infos whose bundles are the names of mask m, in order
RECURSIVE BundlesOf(_, _)
BundlesOf(i, hashes) ==
    IF i > Len(BundleNames) THEN <<>>
    ELSE (IF hashes[i] = NoHash THEN <<>> ELSE <<Bundle(BundleNames[i], hashes[i])>>)
            \o BundlesOf(i + 1, hashes)

BundleInfos ==
    { [version |-> 1, bundles |-> BundlesOf(1, h)] :
        h \in [1..Len(BundleNames) -> BundleHashes \cup {NoHash}] }

NoInfo == [version |-> 0, bundles |-> <<>>]

File(content) == [exists |-> TRUE, content |-> content]

NoFile(empty) == [exists |-> FALSE, content |-> empty]

VersionJson == [appVersion |-> 1, assetHash |-> 7, assetVersion |-> 1]

NoVersion == [appVersion |-> 0, assetHash |-> 0, assetVersion |-> 0]

HostHash == 9

\* a cached dict's .get(bundleName, {}).get("hash")
CachedHash(cached_bundles, name) ==
    IF \E i \in 1..Len(cached_bundles) : cached_bundles[i].bundleName = name
    THEN (CHOOSE b \in {cached_bundles[i] : i \in 1..Len(cached_bundles)} :
              b.bundleName = name).hash
    ELSE NoHash

\* a mutant of HashChanged: every bundle counts as changed
AlwaysChanged(bundle, cached_bundles) == TRUE

\* lines 102-104: bundle.get("hash") != cached_bundles.get(...).get("hash")
HashChanged(bundle, cached_bundles) ==
    bundle.hash # CachedHash(cached_bundles, bundle.bundleName)

\* ASSET_BUNDLE_URL.format(...)
BundleUrl(host_hash, version, asset_hash, name) == <<host_hash, version, asset_hash, name>>

\* lines 83-142: the download list from the current info and the two caches
DownloadList(asset_bundle_info, game_version_json, fs, host_hash) ==
    LET item(b) == <<BundleUrl(host_hash, asset_bundle_info.version,
                               game_version_json.assetHash, b.bundleName), b>>
        live2d(b) == StartsWith(b.bundleName, LIVE2D_PREFIX)
        changed(b) == HashChanged(b, fs.info.content.bundles)
        chosen == IF fs.info.exists /\ fs.version.exists
                  THEN SelectSeq(SelectSeq(asset_bundle_info.bundles, changed), live2d)
                  ELSE SelectSeq(asset_bundle_info.bundles, live2d)
    IN  [i \in 1..Len(chosen) |-> item(chosen[i])]

\* lines 144-155: the three files after get_download_list
CachesAfterList(asset_bundle_info, game_version_json, fs, download_list) ==
    [dl |-> IF download_list # <<>> THEN File(download_list) ELSE fs.dl,
     info |-> File(asset_bundle_info),
     version |-> File(game_version_json)]

NoCaches == [dl |-> NoFile(<<>>), info |-> NoFile(NoInfo), version |-> NoFile(NoVersion)]

\* a mutant of ResumesFromCache: the cached list is never looked at
NeverResumes(fs) == FALSE

\* line 109: if await config.DL_LIST_CACHE_PATH.exists()
ResumesFromCache(fs) == fs.dl.exists

\* what the bundle-info endpoint may serve in a run
ServerInfos ==
    { [version |-> 1, bundles |-> <<Bundle(BundleNames[1], 1), Bundle(BundleNames[2], 1)>>],
      [version |-> 1, bundles |-> <<Bundle(BundleNames[1], 2), Bundle(BundleNames[2], 1),
                                    Bundle(BundleNames[3], 1)>>],
      [version |-> 1, bundles |-> <<Bundle(BundleNames[2], 2)>>] }

UpOthersIdle ==
    AFSIdle /\ TLIdle /\ EXIdle /\ UTFIdle /\ ResIdle /\ USMIdle /\
    SegIdle /\ MocIdle /\ MaskIdle /\ RdIdle /\ IpIdle /\ DlIdle /\
    GtIdle /\ PscIdle /\ DcIdle

\* the first run of the program on a machine without caches
InitMain ==
    /\ up_fs = NoCaches
    /\ up_server \in ServerInfos
    /\ up_list = <<>>
    /\ up_run = 1
    /\ up_queried = FALSE
    /\ up_resumed = FALSE
    /\ up_pc = "start"
    /\ UpOthersIdle

\* get_download_list alone, on any caches and any current bundle info
InitDownloadList ==
    /\ up_fs \in [dl : {NoFile(<<>>)},
                  info : {NoFile(NoInfo)} \cup {File(i) : i \in BundleInfos},
                  version : {NoFile(NoVersion), File(VersionJson)}]
    /\ up_server \in BundleInfos
    /\ up_list = <<>>
    /\ up_run = 1
    /\ up_queried = TRUE
    /\ up_resumed = FALSE
    /\ up_pc = "list"
    /\ UpOthersIdle

upFrame == <<afsVars, tlVars, exVars, utfVars, resVars, usmVars, segVars,
             mocVars, maskVars, rdVars, ipVars, dlVars, gtVars, pscVars,
             dcVars>>

\* lines 109-117: the cached list is loaded and given to do_download
MainResume ==
    /\ up_pc = "start"
    /\ ResumesFromCache(up_fs)
    /\ up_list' = up_fs.dl.content
    /\ up_resumed' = TRUE
    /\ up_pc' = "download"
    /\ UNCHANGED <<up_fs, up_server, up_run, up_queried, upFrame>>

\* lines 105-107: refresh_cookie raises before the cached list is looked at
MainCookieFails ==
    /\ up_pc = "start"
    /\ up_pc' = "failed"
    /\ UNCHANGED <<up_fs, up_server, up_list, up_run, up_queried, up_resumed, upFrame>>

\* lines 123-202: the version, host-hash and bundle-info endpoints answer
MainFetch ==
    /\ up_pc = "start"
    /\ ~ResumesFromCache(up_fs)
    /\ up_queried' = TRUE
    /\ up_pc' = "list"
    /\ UNCHANGED <<up_fs, up_server, up_list, up_run, up_resumed, upFrame>>

\* lines 123-202: an endpoint fails or answers something invalid
MainFetchFails ==
    /\ up_pc = "start"
    /\ ~ResumesFromCache(up_fs)
    /\ up_queried' = TRUE
    /\ up_pc' = "failed"
    /\ UNCHANGED <<up_fs, up_server, up_list, up_run, up_resumed, upFrame>>

\* lines 205-210: get_download_list
MainGetList ==
    /\ up_pc = "list"
    /\ LET download_list == DownloadList(up_server, VersionJson, up_fs, HostHash)
       IN  /\ up_list' = download_list
           /\ up_fs' = CachesAfterList(up_server, VersionJson, up_fs, download_list)
    /\ up_pc' = "download"
    /\ UNCHANGED <<up_server, up_run, up_queried, up_resumed, upFrame>>

\* do_download, lines 23-38: every worker returns
DoDownloadBundles ==
    /\ up_pc = "download"
    /\ up_pc' = "restore"
    /\ UNCHANGED <<up_fs, up_server, up_list, up_run, up_queried, up_resumed, upFrame>>

\* do_download, lines 23-38: a worker raises, gather raises
DoDownloadBundlesFails ==
    /\ up_pc = "download"
    /\ up_list # <<>>
    /\ up_pc' = "failed"
    /\ UNCHANGED <<up_fs, up_server, up_list, up_run, up_queried, up_resumed, upFrame>>

\* do_download, lines 42-47: restore_live2d_motions returns
DoRestore ==
    /\ up_pc = "restore"
    /\ up_pc' = "upload"
    /\ UNCHANGED <<up_fs, up_server, up_list, up_run, up_queried, up_resumed, upFrame>>

\* do_download, lines 42-47: restore_live2d_motions raises
DoRestoreFails ==
    /\ up_pc = "restore"
    /\ up_pc' = "failed"
    /\ UNCHANGED <<up_fs, up_server, up_list, up_run, up_queried, up_resumed, upFrame>>

\* do_download, lines 51-81: every upload command exits with 0
DoUpload ==
    /\ up_pc = "upload"
    /\ up_pc' = "unlink"
    /\ UNCHANGED <<up_fs, up_server, up_list, up_run, up_queried, up_resumed, upFrame>>

\* do_download, lines 75-79: an upload command fails
DoUploadFails ==
    /\ up_pc = "upload"
    /\ up_pc' = "failed"
    /\ UNCHANGED <<up_fs, up_server, up_list, up_run, up_queried, up_resumed, upFrame>>

\* lines 120-121 and 216-217: the cached list is removed, main returns
MainUnlink ==
    /\ up_pc = "unlink"
    /\ up_fs' = [up_fs EXCEPT !.dl = NoFile(<<>>)]
    /\ up_pc' = "done"
    /\ UNCHANGED <<up_server, up_list, up_run, up_queried, up_resumed, upFrame>>

\* the program is started again; the server may serve another bundle info
MainNextRun ==
    /\ up_pc \in {"done", "failed"}
    /\ up_run < MaxRuns
    /\ up_run' = up_run + 1
    /\ up_server' \in ServerInfos
    /\ up_list' = <<>>
    /\ up_queried' = FALSE
    /\ up_resumed' = FALSE
    /\ up_pc' = "start"
    /\ UNCHANGED <<up_fs, upFrame>>

NextMain ==
    \/ MainCookieFails
    \/ MainResume \/ MainFetch \/ MainFetchFails \/ MainGetList
    \/ DoDownloadBundles \/ DoDownloadBundlesFails \/ DoRestore \/ DoRestoreFails
    \/ DoUpload \/ DoUploadFails \/ MainUnlink \/ MainNextRun

SpecMain == InitMain /\ [][NextMain]_vars

\* get_download_list alone: one call
SpecDownloadList == InitDownloadList /\ [][MainGetList]_vars

(***************************************************************************)
(* Properties of the AFS2 reader (checked under SpecAFS)                   *)
(***************************************************************************)
AFSParsed == afs_pc \in {"parsed", "looked"}

\* the smallest multiple of a (a > 0) that is >= r
IsNextMultiple(o, a, r) == o % a = 0 /\ o >= r /\ o - r < a

C2_OffsetsAlignedUp ==
    AFSParsed =>
        /\ \A i \in 1..Len(files) :
              LET r == ApplyMask(afs_in.raw_offs[i], afs_in.offset_size)
              IN  /\ IsNextMultiple(files[i].offset, afs_in.alignment, r)
                  /\ r % afs_in.alignment = 0 => files[i].offset = r
        /\ (afs_in.alignment = 32 /\ afs_in.raw_offs = <<0, 100, 250>>) =>
              /\ files[1].offset = 0
              /\ files[2].offset = 128
              /\ AlignedOffs(afs_in) = <<0, 128, 256>>

\* the archive of the example was parsed
C2_Witness ==
    /\ AFSParsed
    /\ afs_in.alignment = 32
    /\ afs_in.raw_offs = <<0, 100, 250>>
    /\ files[2].offset = 128

\* C7: file_data_for_cue_id(id) returns the data of the first entry whose cue
\* id is id; without a match it returns the first entry's data when that
\* entry's cue id is 0, and otherwise fails with the not-found error
\* (ValueError) and returns nothing.
C7_LookupContract ==
    afs_pc = "looked" =>
        LET hits == {i \in 1..Len(files) : files[i].cue_id = lookup_id}
        IN  IF hits # {}
            THEN /\ afs_err = ""
                 /\ \E i \in hits :
                       /\ \A j \in hits : i <= j
                       /\ lookup_res = FileData(afs_in, files[i])
            ELSE IF Len(files) > 0 /\ files[1].cue_id = 0
            THEN afs_err = "" /\ lookup_res = FileData(afs_in, files[1])
            ELSE afs_err = "ValueError" /\ lookup_res = NoData

(***************************************************************************)
(* Properties of track naming (checked under SpecTrackList)                *)
(***************************************************************************)
EarlierNames(i) == {tracks[j].name : j \in 1..(i - 1)}

\* C3 as stated: after resolution no two tracks have the same name.
C3_NamesUnique ==
    tl_pc = "done" =>
        \A i, j \in 1..Len(tracks) : i # j => tracks[i].name # tracks[j].name

\* C4: a track whose base name N is unused keeps N; one whose base name is
\* already an earlier track's name is named N-{wav_id}, or N-{wav_id + 1} when
\* N-{wav_id} is taken as well; bgm with waveform ids 5, 5, 6 gives bgm, bgm-5,
\* bgm-6.
C4_Disambiguation ==
    /\ \A i \in 1..Len(tracks) :
          LET N == IF tracks[i].cue_id \in DOMAIN name_map
                   THEN name_map[tracks[i].cue_id]
                   ELSE <<"UNKNOWN", tracks[i].cue_id>>
              w == tracks[i].wav_id
          IN  tracks[i].name =
                  IF N \notin EarlierNames(i) THEN N
                  ELSE IF (N \o <<w>>) \in EarlierNames(i) THEN N \o <<w + 1>>
                  ELSE N \o <<w>>
    /\ ( /\ Len(tracks) >= 3
         /\ \A i \in 1..3 : tracks[i].cue_id \in DOMAIN name_map
                            /\ name_map[tracks[i].cue_id] = <<"bgm">>
         /\ tracks[1].wav_id = 5 /\ tracks[2].wav_id = 5 /\ tracks[3].wav_id = 6 )
       => ( /\ tracks[1].name = <<"bgm">>
            /\ tracks[2].name = <<"bgm", 5>>
            /\ tracks[3].name = <<"bgm", 6>> )

\* three tracks of base name bgm with waveform ids 5, 5, 6 were resolved
C4_Witness ==
    /\ tl_pc = "done"
    /\ Len(tracks) = 3
    /\ \A i \in 1..3 : tracks[i].cue_id = 0
    /\ name_map[0] = <<"bgm">>
    /\ tracks[1].wav_id = 5 /\ tracks[2].wav_id = 5 /\ tracks[3].wav_id = 6
    /\ tracks[3].name = <<"bgm", 6>>

(***************************************************************************)
(* Properties of extract_acb (checked under SpecExtract)                   *)
(***************************************************************************)
\* the track loop raised at track ex_i
FailedAtTrack == ex_pc = "failed" /\ ex_i >= 1 /\ ex_i <= Len(tracks)

DataOf(t) == TrackData(t, embedded_awb, external_awbs)

\* C8 as stated: when the extraction of a track fails, no file exists for it,
\* and every file there is holds what the last earlier track of that file name
\* wrote.
C8_NoPartialOutput ==
    FailedAtTrack =>
        \A f \in DOMAIN out_fs :
            LET writers == {j \in 1..(ex_i - 1) : FileName(tracks[j]) = f}
            IN  /\ writers # {}
                /\ \E j \in writers :
                      /\ \A k \in writers : k <= j
                      /\ out_fs[f] = DataOf(tracks[j]).data

\* C9 as stated: when one track's blob is not found, every later track whose
\* blob can be read is extracted all the same.
C9_SiblingsContinue ==
    (FailedAtTrack /\ ex_err = "ValueError") =>
        \A j \in (ex_i + 1)..Len(tracks) :
            DataOf(tracks[j]).err = "" =>
                /\ \E k \in 1..Len(outputs) : outputs[k] = FileName(tracks[j])
                /\ FileName(tracks[j]) \in DOMAIN out_fs

\* the archive selected for t holds an entry under t's waveform id
HasBlob(t) ==
    LET s == SelectSource(t, embedded_awb, external_awbs)
    IN  /\ s.err = ""
        /\ s.src.parsed
        /\ \E i \in 1..Len(s.src.files) : s.src.files[i].cue_id = t.wav_id

\* C10 as stated: when every track resolves to a stored blob, extract_acb
\* produces exactly one file per track, holding that track's blob.
C10_OneFilePerTrack ==
    (ex_pc = "done" /\ \A j \in 1..Len(tracks) : HasBlob(tracks[j])) =>
        /\ Len(outputs) = Len(tracks)
        /\ Cardinality(DOMAIN out_fs) = Len(tracks)
        /\ \A j \in 1..Len(tracks) :
              /\ FileName(tracks[j]) \in DOMAIN out_fs
              /\ out_fs[FileName(tracks[j])] = DataOf(tracks[j]).data

\* the table description declares an offset or a reference that points outside
\* the buffer, or a blob whose size reaches past its end
HasBadOffset(d) ==
    \/ d.fault \in {"row_offset", "string_offset", "data_offset", "name_offset"}
    \/ \E i \in 1..Len(d.fields) :
          \/ d.fields[i] \in {"cstr_out", "cdata_trunc"}
          \/ d.fields[i] \in {"rstr_out", "rdata_trunc"} /\ d.nrows >= 1

\* every blob of the returned table has the number of bytes its reference declares
BlobsComplete ==
    \A i \in 1..Len(utf_desc.fields) :
        IsDataKind(utf_desc.fields[i]) =>
            /\ IsConstantKind(utf_desc.fields[i]) =>
                  Len(constants[FieldName(i)].v) = DeclaredSize(utf_desc, i, 0)
            /\ \A r \in 1..Len(rows) :
                  Len(rows[r][FieldName(i)].v) =
                      DeclaredSize(utf_desc, i,
                                   IF IsConstantKind(utf_desc.fields[i]) THEN 0 ELSE r)

\* C5 as stated: UTFTable returns no table when the magic is wrong or a
\* declared offset, name offset or string/data reference points outside the
\* buffer, and no returned table holds a blob shorter than its declared size.
C5_FormatErrorOnBadOffset ==
    /\ (utf_desc.fault = "magic" \/ HasBadOffset(utf_desc)) => utf_pc # "done"
    /\ utf_pc = "done" => BlobsComplete

\* the names of the constant-storage fields of the schema the buffer holds
ConstantFieldNames ==
    {FieldName(i) : i \in {j \in 1..Len(utf_desc.fields) :
                              IsConstantKind(utf_desc.fields[j])}}

\* C6: in every table UTFTable returns, the number of rows is the header's row
\* count, all rows have the same field names, and every constant-storage field
\* has the same resolved value, never a deferred reference, in every row.
C6_RowsShareSchemaAndConstants ==
    utf_pc = "done" =>
        /\ Len(rows) = header.number_of_rows
        /\ Len(rows) = utf_desc.nrows
        /\ \A i, j \in 1..Len(rows) : DOMAIN rows[i] = DOMAIN rows[j]
        /\ ConstantFieldNames = DOMAIN constants
        /\ \A k \in ConstantFieldNames :
              /\ constants[k].kind # "promise"
              /\ \A r \in 1..Len(rows) :
                    /\ k \in DOMAIN rows[r]
                    /\ rows[r][k] = constants[k]

\* a table of two rows with a constant string field and a per-row field was returned
C6_Witness ==
    /\ utf_pc = "done"
    /\ Len(rows) = 2
    /\ \E i, j \in 1..Len(utf_desc.fields) :
          /\ utf_desc.fields[i] = "cstr"
          /\ utf_desc.fields[j] = "r8"
          /\ rows[1][FieldName(i)] = Value("str", COLUMN_TYPE_STRING, <<104, 105>>)
          /\ rows[2][FieldName(i)] = rows[1][FieldName(i)]
          /\ rows[1][FieldName(j)] # rows[2][FieldName(j)]

(***************************************************************************)
(* Properties of the USM demuxer (checked under SpecUSM)                   *)
(***************************************************************************)
\* block i of bs has the signature and a payload of one of the kinds
IsBlock(bs, i, sig, kinds) == i <= Len(bs) /\ bs[i].sig = sig /\ bs[i].kind \in kinds

\* bs starts with CRID, @SFV meta, [@SFA meta], @SFV header end, @SFA header
\* end exactly when the @SFA meta was there, @SFV data table, @SFV metadata end
HeaderOrderOk(bs) ==
    /\ IsBlock(bs, 1, "CRID", {"utf", "utf_nofile"})
    /\ IsBlock(bs, 2, "@SFV", {"utf", "utf_nofile"})
    /\ \/ /\ IsBlock(bs, 3, "@SFV", {"header_end"})
          /\ IsBlock(bs, 4, "@SFV", {"utf", "utf_nofile"})
          /\ IsBlock(bs, 5, "@SFV", {"metadata_end"})
       \/ /\ IsBlock(bs, 3, "@SFA", {"utf", "utf_nofile"})
          /\ IsBlock(bs, 4, "@SFV", {"header_end"})
          /\ IsBlock(bs, 5, "@SFA", {"header_end"})
          /\ IsBlock(bs, 6, "@SFV", {"utf", "utf_nofile"})
          /\ IsBlock(bs, 7, "@SFV", {"metadata_end"})

\* C11: extract_usm opens its output files, writes payload or returns only for
\* a container whose blocks come in the order CRID, @SFV meta, optional @SFA
\* meta, @SFV header end, @SFA header end (exactly when the @SFA meta was
\* present), @SFV data table, @SFV metadata end; any other order ends in an
\* exception with no output file opened.
C11_HeaderOrder ==
    /\ (usm_files # <<>> \/ usm_pc \in {"data", "done"}) => HeaderOrderOk(usm_in.blocks)
    /\ ~HeaderOrderOk(usm_in.blocks) =>
          /\ usm_files = <<>>
          /\ usm_pc \in {"crid", "sfv_meta", "header_end", "sfa_header_end",
                         "sfv_data", "metadata_end", "failed"}
    /\ (hasAudio /\ usm_pc \in {"data", "done"}) => "adx" \in DOMAIN usm_files

\* a container with an audio stream was accepted and a payload written
C11_Witness ==
    /\ usm_pc = "done"
    /\ hasAudio
    /\ HeaderOrderOk(usm_in.blocks)
    /\ Len(usm_files["m2v"]) = 2
    /\ Len(usm_files["adx"]) = 1

(***************************************************************************)
(* Properties of the segment loop (checked under SpecSegments)             *)
(***************************************************************************)
\* the type tags of the segments encoded in a Segments array, in order
RECURSIVE SegmentTypesFrom(_, _)
SegmentTypesFrom(segs, i) ==
    IF i > Len(segs) THEN <<>>
    ELSE <<segs[i]>> \o SegmentTypesFrom(segs, i + (IF segs[i] = 1 THEN 7 ELSE 3))

SegmentTypes(segs) == SegmentTypesFrom(segs, 3)

\* samples j - 1, j, j + 1 lie 0.01 apart (within 0.0001)
ThreeAtCentiseconds(c, j) ==
    /\ j + 1 <= Len(c)
    /\ Abs(c[j].time - c[j - 1].time - Centisecond) < Tolerance
    /\ Abs(c[j + 1].time - c[j].time - Centisecond) < Tolerance

\* C12 as stated: for three consecutive samples 0.01 apart whose first and
\* third values are equal, the segment emitted between the first and the
\* second is tagged stepped (2 or 3), never linear (0) or Bezier (1),
\* whatever the second sample's value.
C12_SteppedWhenOuterEqual ==
    seg_pc = "done" =>
        \A j \in 2..Len(curve_in) :
            (ThreeAtCentiseconds(curve_in, j)
                /\ curve_in[j - 1].value = curve_in[j + 1].value) =>
                    SegmentTypes(segments)[j - 1] \in {2, 3}

(***************************************************************************)
(* Properties of the moc3 reader (checked under SpecMoc3)                  *)
(***************************************************************************)
\* the map holds the raw and the prefixed checksum of the name, both mapping to it
HasIds(m, prefix, name) ==
    /\ Crc32Key("", name) \in DOMAIN m
    /\ m[Crc32Key("", name)] = name
    /\ Crc32Key(prefix, name) \in DOMAIN m
    /\ m[Crc32Key(prefix, name)] = name

\* the slots that lie in [base, end_addr)
SlotsIn(base, end_addr) ==
    {k \in 1..MaxSlots : base + SlotSize * k <= end_addr}

\* C13 as stated: for every 64-byte slot inside a declared table range, the
\* last one included, the returned map holds the checksum of the raw name and
\* of the prefixed name (Parts/ for the first table, Parameters/ for the
\* second), both mapping to the name.
C13_EverySlotMapped ==
    moc_pc = "done" =>
        /\ \A k \in SlotsIn(moc3.part_base, moc3.part_end) :
              HasIds(param_id_map, "Parts/", moc3.part_names[k])
        /\ \A k \in SlotsIn(moc3.param_base, moc3.param_end) :
              HasIds(param_id_map, "Parameters/", moc3.param_names[k])

(***************************************************************************)
(* Properties of TrackList.__init__ on ACB tables (checked under          *)
(* SpecResolve)                                                            *)
(***************************************************************************)
\* some Cue row has a ReferenceType other than 3 and 8
HasUnknownReferenceType ==
    \E i \in 1..Len(acb.cues) : acb.cues[i].ReferenceType \notin {3, 8}

\* the cue loop stopped with an exception at a row of unknown ReferenceType
FailedAtUnknownRow ==
    /\ tl_pc = "failed"
    /\ acb.cues[cue_i].ReferenceType \notin {3, 8}

\* C14: a Cue table with a row whose ReferenceType is neither 3 nor 8 never
\* yields a track list; when the cue loop reaches such a row, however many
\* cues were resolved before it, TrackList.__init__ raises the
\* unsupported-format error (RuntimeError), and a row of a known
\* ReferenceType never raises it.
C14_UnknownReferenceTypeFatal ==
    /\ HasUnknownReferenceType => tl_pc # "done"
    /\ FailedAtUnknownRow => tl_err = "RuntimeError"
    /\ (tl_pc = "failed" /\ tl_err = "RuntimeError") => FailedAtUnknownRow

\* the second Cue row has an unknown ReferenceType and the first one resolved a track
C14_Witness ==
    /\ FailedAtUnknownRow
    /\ tl_err = "RuntimeError"
    /\ cue_i = 2
    /\ acb.cues[1].ReferenceType \in {3, 8}
    /\ Len(tracks) >= 1

\* the waveform ids one pass over the Track table yields, in row order
OnePassWavIds ==
    LET once == FlatTracks(acb, name_map, 0, 0, <<>>).tracks
    IN  [i \in 1..Len(once) |-> once[i].wav_id]

\* C17 as stated: in flat mode the track list is what one pass over the Track
\* table in row order yields: nothing for a row whose EventIndex is 0xFFFF,
\* and one track per executed set-waveform command of every other row.
C17_FlatOnePass ==
    (acb.flat /\ tl_pc = "done") =>
        [i \in 1..Len(tracks) |-> tracks[i].wav_id] = OnePassWavIds

(***************************************************************************)
(* Properties of concurrent decoder invocations (checked under SpecReaders)*)
(***************************************************************************)
RECURSIVE SoloRun(_, _, _, _, _)
\* what the script s reads from buf when nothing else runs: the reads from
\* the k-th on, the file position being pos and the values so far out
SoloRun(buf, s, k, pos, out) ==
    IF k > Len(s) THEN [out |-> out, failed |-> FALSE]
    ELSE IF s[k].op = "seek" THEN SoloRun(buf, s, k + 1, s[k].at[1], out)
    ELSE IF s[k].op = "uint8_t"
    THEN IF pos < Len(buf)
         THEN SoloRun(buf, s, k + 1, pos + 1, Append(out, buf[pos + 1]))
         ELSE [out |-> out, failed |-> TRUE]
    ELSE IF s[k].at = <<>>
    THEN SoloRun(buf, s, k + 1, pos + Len(FileRead(buf, pos, s[k].size)),
                 Append(out, FileRead(buf, pos, s[k].size)))
    ELSE SoloRun(buf, s, k + 1, pos,
                 Append(out, FileRead(buf, s[k].at[1], s[k].size)))

Alone(i) == SoloRun(rd_buf[i], rd_script[i], 1, 0, <<>>)

IsPrefixOf(s, t) == Len(s) <= Len(t) /\ s = SubSeq(t, 1, Len(s))

\* C15: two decoder invocations on independent buffers, interleaved in any
\* way, read what each reads when it runs alone: at every moment the values
\* an invocation has read are a prefix of its solo result, and when it ends
\* it has read exactly the solo result and failed exactly when the solo run
\* fails; the position a reader moves is its own.
C15_InterleavingIndependent ==
    \A i \in DOMAIN rd_ip :
        /\ IsPrefixOf(rd_out[i], Alone(i).out)
        /\ ~RdRunning(i) =>
              /\ rd_out[i] = Alone(i).out
              /\ (rd_ip[i].step = "failed") = Alone(i).failed

\* both invocations are in the middle of a read with at=..., the second one
\* having moved its position away and read, the first about to read
C15_Witness ==
    /\ rd_ip # <<>>
    /\ rd_ip[1].step = "read"
    /\ rd_ip[2].step = "back"
    /\ rd_ip[2].op = 2
    /\ rd_out[2] # <<>>
    /\ rd_pos[1] # rd_pos[2]

(***************************************************************************)
(* Properties of get_mask (checked under SpecMask)                         *)
(***************************************************************************)
IsMaskTable(m) == Len(m) = 32 /\ \A n \in 1..Len(m) : m[n] \in 0..255

SiblingPresent(p) ==
    /\ stream_awb_hash = "table"
    /\ p + 1 <= Len(stream_awbs)
    /\ stream_awbs[p + 1].exists
    /\ AFSInitError(stream_awbs[p + 1].in) = ""

\* the buffer the track's data must come from: -1 the AwbFile blob, p the
\* sibling of entry p
ExpectedSource(t) == IF t.is_stream = 0 THEN -1 ELSE t.stream_awb_id

\* C18: a streamed track with stream port p is read from the archive parsed
\* from the p-th entry of the StreamAwbHash table, and a non-streamed track
\* from the embedded archive, whichever siblings of the other entries are
\* present or missing: the track just written holds bytes of that buffer,
\* and a streamed track whose own sibling is present finds its archive.
C18_SourceByPort ==
    /\ (ex_pc \in {"loop", "done"} /\ ex_i > 1) =>
          LET t == tracks[ex_i - 1]
              c == out_fs[FileName(t)]
          IN  c # EmptyContent => c[1] = ExpectedSource(t)
    /\ (ex_pc = "failed" /\ ex_i >= 1 /\ ex_i <= Len(tracks)) =>
          LET t == tracks[ex_i]
          IN  (t.is_stream # 0 /\ SiblingPresent(t.stream_awb_id)) =>
                  ex_err # "IndexError"

\* C19: extract_acb does not fail before the track loop because the
\* StreamAwbHash sub-table is absent or empty or because a sibling .awb does
\* not exist: when the tracks were resolved, the embedded archive (if any)
\* parses and no sibling that exists is malformed, the track loop is
\* reached.
C19_MissingStreamsNotFatal ==
    ( /\ tl_pc = "done"
      /\ awb_file.nbytes = 0 \/ AFSInitError(awb_file) = ""
      /\ ExternalAwbsFrom(stream_awbs, 1, <<>>).err = "" )
    => ~(ex_pc = "failed" /\ ex_i = 0)

\* the extension the format's name stands for
CanonicalSuffix(enc) ==
    CASE enc = WAVEFORM_ENCODE_TYPE_ADX -> [ext |-> ".adx", tag |-> -1]
      [] enc = WAVEFORM_ENCODE_TYPE_HCA -> [ext |-> ".hca", tag |-> -1]
      [] enc = WAVEFORM_ENCODE_TYPE_VAG -> [ext |-> ".vag", tag |-> -1]
      [] enc = WAVEFORM_ENCODE_TYPE_ATRAC3 -> [ext |-> ".at3", tag |-> -1]
      [] enc = WAVEFORM_ENCODE_TYPE_BCWAV -> [ext |-> ".bcwav", tag |-> -1]
      [] enc = WAVEFORM_ENCODE_TYPE_NINTENDO_DSP -> [ext |-> ".dsp", tag |-> -1]
      [] OTHER -> [ext |-> "", tag |-> enc]

EncodeTypes == 0..14

\* C20: every waveform a set-waveform command reaches resolves to a track
\* (the resolution does not fail on its encoding), every track is written
\* under its name followed by the canonical extension of its encoding, and
\* an encoding outside the table is written with its raw numeric tag.
C20_CanonicalExtension ==
    /\ tl_err # "AssertionError"
    /\ \A i \in 1..Len(outputs) :
          outputs[i] = [name |-> tracks[i].name,
                        suffix |-> CanonicalSuffix(tracks[i].enc_type)]
    /\ \A enc \in EncodeTypes : WaveTypeExt(enc) = CanonicalSuffix(enc)

(***************************************************************************)
(* Properties of the Command interpreter loop (checked under               *)
(* SpecInterpLive)                                                         *)
(***************************************************************************)
RECURSIVE FirstTerminator(_, _)
\* the offset of the first record with opcode 0 met when the records are
\* walked from offset k by their lengths; Len(command) when there is none
FirstTerminator(command, k) ==
    IF k + 3 > Len(command) THEN Len(command)
    ELSE IF U16(command, k) = 0 THEN k
    ELSE FirstTerminator(command, k + 3 + U8(command, k + 2))

IpHalted == ip_pc \in {"exited", "failed"}

\* C21: for every finite Command blob the interpreter loop halts; the read
\* position k strictly increases on every iteration; when the loop ends
\* without an exception a record with opcode 0 was met or the blob is
\* exhausted (k >= len(command)); and no track comes from a record located
\* after the first terminator record.
C21_InterpreterHalts ==
    /\ <>IpHalted
    /\ [][ip_pc = "loop" /\ ip_pc' # "failed" /\ ip_k < Len(ip_command) => ip_k' > ip_k]_ipVars
    /\ [](ip_pc = "exited" => ip_k >= Len(ip_command))
    /\ [](\A i \in 1..Len(ip_origin) :
              ip_origin[i] < FirstTerminator(ip_command, 0))
    /\ [](Len(ip_origin) = Len(tracks) \/ ip_pc = "idle")

\* the loop stopped at a terminator that is followed by a set-waveform
\* record, after appending the track of the record before it
C21_Witness ==
    /\ ip_pc = "exited"
    /\ ip_command = SetWaveform(0) \o Terminator \o SetWaveform(0)
    /\ Len(tracks) = 1
    /\ ip_origin = <<0>>

\* ---- the data loop of extract_usm ----

\* the sizes of every chunk describe it
WellFormed(chunks) ==
    \A i \in 1..Len(chunks) :
        /\ chunks[i].hdr = 24
        /\ chunks[i].block_size = 24 + Len(chunks[i].body)
        /\ chunks[i].ftr <= Len(chunks[i].body)

\* the index of the first end sentinel, Len + 1 when there is none
FirstEnd(chunks) ==
    IF \E i \in 1..Len(chunks) : chunks[i] = EndChunk
    THEN CHOOSE i \in 1..Len(chunks) :
            chunks[i] = EndChunk /\ \A j \in 1..(i - 1) : chunks[j] # EndChunk
    ELSE Len(chunks) + 1

RECURSIVE ChunkStart(_, _)
\* the offset of chunk i in the stream
ChunkStart(chunks, i) ==
    IF i <= 1 THEN 0
    ELSE ChunkStart(chunks, i - 1) + Len(ChunkBytes(chunks[i - 1]))

\* what a chunk contributes: its payload, masked iff data_type 0 and a key
Contribution(ch, key, audio) ==
    IF ch.dtype % 4 = 0 /\ key # <<>>
    THEN IF audio THEN MaskAudio(PayloadOf(ch), GetMask(key).amask)
         ELSE MaskVideo(PayloadOf(ch), GetMask(key))
    ELSE PayloadOf(ch)

RECURSIVE Concatenated(_, _, _, _)
\* the contributions of the chunks of one signature among the first n
Concatenated(chunks, key, sig, n) ==
    IF n = 0 THEN <<>>
    ELSE Concatenated(chunks, key, sig, n - 1)
            \o (IF chunks[n].sig = sig
                THEN Contribution(chunks[n], key, sig = SFA) ELSE <<>>)

\* the chunks the loop has gone past
ChunksDone ==
    CHOOSE n \in 0..Len(dl_in.chunks) : ChunkStart(dl_in.chunks, n + 1) = dl_pos

\* C22: on a container whose chunk sizes describe the chunks, the video output
\* is the concatenation, in container order, of the payloads of the @SFV
\* chunks the loop has gone past, none of them at or after the end sentinel,
\* and the audio output that of the @SFA chunks; a payload is masked iff its
\* data_type is 0 and a key was given; when the loop ends at the sentinel, all
\* chunks before it have been gone past; outputs only grow
C22_OutputsAreConcatenations ==
    /\ [](dl_pc # "idle" /\ WellFormed(dl_in.chunks) =>
            /\ \E n \in 0..Len(dl_in.chunks) : ChunkStart(dl_in.chunks, n + 1) = dl_pos
            /\ ChunksDone < FirstEnd(dl_in.chunks)
            /\ dl_files[1] = Concatenated(dl_in.chunks, dl_in.key, SFV, ChunksDone)
            /\ dl_in.audio =>
                 dl_files[2] = Concatenated(dl_in.chunks, dl_in.key, SFA, ChunksDone)
            /\ dl_pc = "done" => ChunksDone = FirstEnd(dl_in.chunks) - 1)
    /\ [][\A i \in 1..Len(dl_files) : IsPrefixOf(dl_files[i], dl_files'[i])]_dlVars

C22_Witness ==
    /\ dl_pc = "done"
    /\ dl_in.chunks = <<DataChunk(SFV, 0, BigVideo, 0), DataChunk(SFA, 0, BigAudio, 0), EndChunk>>
    /\ dl_in.key # <<>>
    /\ dl_files[1] # BigVideo
    /\ dl_files[2] # BigAudio

\* the marker is nowhere in the stream
NoMarker(buf) ==
    \A p \in 0..Len(buf) : ~(CanRead(buf, p + 32, 13) /\ IsContentsEnd(buf, p))

\* C23: the loop ends; every iteration that does not end it moves the
\* position forward; the iteration that meets the marker writes nothing and
\* ends the loop there; a container whose chunk sizes describe the chunks
\* ends at its first sentinel and nowhere else, and does not fail when it has
\* one and an output for each audio chunk before it; a stream without the
\* marker does not end normally, so ends in an error
C23_DataLoopTerminates ==
    /\ <>(dl_pc \in {"done", "failed"})
    /\ [][dl_pc' = "loop" => dl_pos' > dl_pos]_dlVars
    /\ [][dl_pc' = "done" => dl_files' = dl_files /\ dl_pos' = dl_pos
                              /\ IsContentsEnd(dl_stream, dl_pos)]_dlVars
    /\ [](dl_pc = "done" /\ WellFormed(dl_in.chunks) =>
            dl_pos = ChunkStart(dl_in.chunks, FirstEnd(dl_in.chunks)))
    /\ [](dl_pc = "failed" /\ WellFormed(dl_in.chunks) /\ dl_in.audio =>
            FirstEnd(dl_in.chunks) > Len(dl_in.chunks))
    /\ [](dl_pc = "done" => ~NoMarker(dl_stream))

C23_Witness ==
    /\ dl_pc = "done"
    /\ dl_in.chunks = <<DataChunk(SFV, 0, SmallVideo, 0), EndChunk, EndChunk>>
    /\ dl_files[1] = SmallVideo
    /\ dl_pos = 48

\* ---- get_utf_table against UTFTable ----

\* C24: when get_utf_table and UTFTable both return on the same table, they
\* return the same rows: every constant field under its own name with its
\* value materialised, every per-row string and blob read at its own offset
C24_SameRowsAsUTFTable ==
    gt_pc = "done" /\ gt_ref.err = "" => gt_rows = gt_ref.rows

\* ---- process_streamed_clip ----

\* the frames (0-based) before frame k that hold a key of the index
EarlierFramesWith(ret, k, index) ==
    { f \in 0..(k - 1) : FirstKeyWith(ret[f + 1], index) # 0 }

\* the inSlope back-solved from the nearest earlier frame that holds a key of
\* the index of ck, 0 when no earlier frame does
BackSolved(ret, k, ck) ==
    IF EarlierFramesWith(ret, k, ck.index) = {} THEN ZeroSlope
    ELSE LET f == CHOOSE x \in EarlierFramesWith(ret, k, ck.index) :
                     \A y \in EarlierFramesWith(ret, k, ck.index) : y <= x
         IN  CalcNextInSlope(ret[f + 1].keyList[FirstKeyWith(ret[f + 1], ck.index)],
                             ret[k + 1].time - ret[f + 1].time, ck)

\* C25: in the frames process_streamed_clip returns, every key of a frame
\* other than the first two and the last has the inSlope back-solved from the
\* nearest earlier frame among 0..k-1 that holds a key of its index, 0 when
\* none does; the keys of the first two frames and of the last keep inSlope 0
C25_NearestEarlierFrame ==
    psc_pc = "done" =>
        \A k \in 0..(Len(psc_ret) - 1) :
            \A i \in 1..Len(psc_ret[k + 1].keyList) :
                psc_ret[k + 1].keyList[i].inSlope =
                    IF k < 2 \/ k = Len(psc_ret) - 1 THEN ZeroSlope
                    ELSE BackSolved(ReadFrames(psc_in), k, ReadFrames(psc_in)[k + 1].keyList[i])

\* ---- the decode loops ----

\* the point the call just made appended: the last of the track of the bone
\* name of the binding of the call
NewPoint(call) ==
    LET b == dc_in.bindings[FindBinding(dc_in.bindings, call.idx)]
        t == CHOOSE x \in 1..Len(dc_tracks') : dc_tracks'[x].Name = BoneName(b)
    IN  dc_tracks'[t].Curve[Len(dc_tracks'[t].Curve)]

\* C26: the call for frame f and dense curve c (both 0-based) appends one
\* sample at the time of frame f whose value is element f * curve_count + c
\* of the dense sample array
C26_DenseSampleIndex ==
    [][\A f \in 0..(dc_in.dense.m_FrameCount - 1) :
         \A c \in 0..(dc_in.dense.m_CurveCount - 1) :
            (dc_pc = "decode" /\ dc_n' = dc_n + 1
                /\ dc_n = Len(StreamedCalls(dc_in)) + f * dc_in.dense.m_CurveCount + c)
            => LET call == DecodeCalls(dc_in)[dc_n + 1]
               IN  /\ NewPoint(call).time =
                          Time(dc_in.dense.m_BeginTime * dc_in.dense.m_SampleRate + f,
                               dc_in.dense.m_SampleRate)
                   /\ NewPoint(call).value =
                          dc_in.dense.m_SampleArray[f * dc_in.dense.m_CurveCount + c + 1]]_dcVars

\* the width of a binding as the claim states it
CurveWidth(b) ==
    IF b.typeID = "Transform" /\ b.attribute \in {1, 3, 4} THEN 3
    ELSE IF b.typeID = "Transform" /\ b.attribute = 2 THEN 4
    ELSE 1

RECURSIVE WidthSum(_, _)
\* the sum of the widths of the first j bindings
WidthSum(bindings, j) ==
    IF j = 0 THEN 0 ELSE WidthSum(bindings, j - 1) + CurveWidth(bindings[j])

\* the indexes the calls of a decode pass to find_binding stay below this
MaxIndex == 14

\* C27: find_binding returns the first binding, in list order, for which the
\* sum of the widths up to it exceeds the index, and none exactly when the
\* index is at least the total width; a call whose index has no binding ends
\* the decode with RuntimeError and emits no sample, and a call that returns
\* emits its sample on the track of the binding found
C27_FirstBindingPastIndex ==
    /\ [](dc_pc # "idle" =>
            \A i \in 0..MaxIndex :
                LET j == FindBinding(dc_in.bindings, i)
                IN  /\ j = 0 <=> i >= WidthSum(dc_in.bindings, Len(dc_in.bindings))
                    /\ j # 0 => /\ j \in 1..Len(dc_in.bindings)
                                /\ WidthSum(dc_in.bindings, j) > i
                                /\ WidthSum(dc_in.bindings, j - 1) <= i)
    /\ [][dc_pc = "decode" /\ dc_n < Len(DecodeCalls(dc_in))
            /\ DecodeCalls(dc_in)[dc_n + 1].idx
                   >= WidthSum(dc_in.bindings, Len(dc_in.bindings))
          => dc_pc' = "failed" /\ dc_err' = "RuntimeError" /\ dc_tracks' = dc_tracks]_dcVars
    /\ [][dc_pc = "decode" /\ dc_n' = dc_n + 1
          => LET i == DecodeCalls(dc_in)[dc_n + 1].idx
                 j == CHOOSE x \in 1..Len(dc_in.bindings) :
                         WidthSum(dc_in.bindings, x) > i /\ WidthSum(dc_in.bindings, x - 1) <= i
             IN  \E t \in 1..Len(dc_tracks') :
                    /\ dc_tracks'[t].Name = BoneName(dc_in.bindings[j])
                    /\ Len(dc_tracks'[t].Curve) >
                          (IF t <= Len(dc_tracks) THEN Len(dc_tracks[t].Curve) ELSE 0)]_dcVars

C27_Witness ==
    /\ dc_pc = "failed"
    /\ dc_err = "RuntimeError"
    /\ dc_n = 3
    /\ dc_in.bindings = <<Binding("Transform", 1, "CubismParameter", 3)>>
    /\ Len(dc_tracks) = 1
    /\ Len(dc_tracks[1].Curve) = 3

\* ---- the counts of Meta ----

RECURSIVE PointsEncoded(_)
\* the points of the segments of the tags: three for a Bezier, one otherwise
PointsEncoded(types) ==
    IF types = <<>> THEN 0
    ELSE (IF Head(types) = 1 THEN 3 ELSE 1) + PointsEncoded(Tail(types))

\* C28: for the document of one curve, Meta.TotalSegmentCount is the number
\* of segments encoded in the curve's Segments array and Meta.TotalPointCount
\* the number of points encoded there: the origin point, one point per
\* linear or stepped segment, three per Bezier segment
C28_MetaCountsMatch ==
    seg_pc = "done" =>
        /\ total_segment_count = Len(SegmentTypes(segments))
        /\ total_point_count = 1 + PointsEncoded(SegmentTypes(segments))


(***************************************************************************)
(* The cached download list across runs                                    *)
(***************************************************************************)
\* one step of main keeps the cached list until do_download has returned
CacheKeptUntilDone ==
    /\ (up_fs.dl.exists /\ ~up_fs'.dl.exists) => (up_pc = "unlink" /\ up_pc' = "done")
    /\ up_pc' = "unlink" => up_pc = "upload"
    /\ up_pc' = "upload" => up_pc = "restore"
    /\ up_pc' = "restore" => up_pc = "download"

\* a step that ends the run with an exception leaves the three files alone
FailureKeepsCache == up_pc' = "failed" => up_fs' = up_fs

\* a run that finds the cached list and goes on processes that list, unqueried
ResumedFromCache ==
    /\ (up_pc = "start" /\ up_fs.dl.exists /\ up_pc' # "failed") =>
            /\ up_pc' = "download"
            /\ up_resumed'
            /\ up_list' = up_fs.dl.content
            /\ ~up_queried'
    /\ (up_resumed /\ up_pc # "done" /\ up_pc # "failed") =>
            (~up_queried' /\ up_list' = up_list /\ up_list' = up_fs.dl.content)

\* C29: the cached download list is deleted only after every download, the
\* restore and the upload of do_download have completed; a run that fails
\* leaves the file, and a run that finds the file processes exactly the
\* cached list without querying the version or bundle-info endpoints.
C29_CacheDeletedOnlyAfterDownload ==
    [][CacheKeptUntilDone /\ FailureKeepsCache /\ ResumedFromCache]_vars

\* a later run resumed from the list an earlier failed run left, and finished
C29_Witness ==
    /\ up_run >= 2
    /\ up_resumed
    /\ ~up_queried
    /\ up_list # <<>>
    /\ up_pc = "done"
    /\ ~up_fs.dl.exists

(***************************************************************************)
(* get_download_list                                                       *)
(***************************************************************************)
BundleSet(bundles) == {bundles[i] : i \in 1..Len(bundles)}

\* the bundles the download list has to hold, from the files before the call
ExpectedBundles(asset_bundle_info, fs) ==
    LET cached == BundleSet(fs.info.content.bundles)
        absent(b) == \A c \in cached : c.bundleName # b.bundleName
        differs(b) == \E c \in cached : c.bundleName = b.bundleName /\ c.hash # b.hash
    IN  { b \in BundleSet(asset_bundle_info.bundles) :
            /\ StartsWith(b.bundleName, LIVE2D_PREFIX)
            /\ (fs.info.exists /\ fs.version.exists) => (absent(b) \/ differs(b)) }

ListedBundles(download_list) == {download_list[i][2] : i \in 1..Len(download_list)}

\* C30: with both caches present get_download_list returns exactly the
\* live2d/ bundles of the current bundle info whose hash differs from the
\* cached hash of the same name or that the cache does not hold; with a
\* cache missing it returns every live2d/ bundle.
C30_ListIsChangedLive2dBundles ==
    [][(up_pc = "list" /\ up_pc' = "download") =>
            /\ ListedBundles(up_list') = ExpectedBundles(up_server, up_fs)
            /\ Len(up_list') = Cardinality(ExpectedBundles(up_server, up_fs))]_vars

\* both caches present, an unchanged live2d/ bundle left out, a changed one listed
C30_Witness ==
    /\ up_pc = "download"
    /\ up_list # <<>>
    /\ \E b \in BundleSet(up_server.bundles) :
          /\ StartsWith(b.bundleName, LIVE2D_PREFIX)
          /\ b \notin ListedBundles(up_list)

====
